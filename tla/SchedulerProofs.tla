-------------------------- MODULE SchedulerProofs --------------------------
(* Theorems about Scheduler, for every value of its constants. *)
EXTENDS Scheduler, TaskQueueProofs

-----------------------------------------------------------------------------
(* Type correctness.                                                        *)

\* The tick a nap ends at fits the clock's width.
LEMMA WakeTimeType ==
  ASSUME NEW ms \in Nat, NEW now \in Nat
  PROVE  WakeTime(ms, now) \in 0..(TimeModulus - 1)
<1>. DEFINE n == now + (1024 * ms) \div 1000
<1>1. n \in Nat
  OBVIOUS
<1>. HIDE DEF n
<1>2. n % TimeModulus \in 0..(TimeModulus - 1)
  BY <1>1, NumbersAssumption
<1>. QED
  BY <1>2 DEF WakeTime, n

\* schedule() keeps the types of what it assigns.
LEMMA ScheduleType ==
  ASSUME TypeOK,
         NEW avail \in [Policies -> Seq(Tasks)], NEW st \in [AllTasks -> States],
         \A p \in Policies : IsInjective(avail[p]),
         Schedule(avail, st)
  PROVE  /\ running' \in AllTasks
         /\ available' \in [Policies -> Seq(Tasks)]
         /\ priority' \in [AllTasks -> 0..255]
         /\ state' \in [AllTasks -> States]
         /\ allow_ts' \in BOOLEAN
<1>1. PICK t \in AllTasks :
        /\ running' = t
        /\ available' = IF t = SchedulerTask THEN avail
                        ELSE [avail EXCEPT ![policy[t]] = RemoveTask(@, t)]
        /\ priority' = IF t \in Tasks /\ policy[t] <= 1
                       THEN [priority EXCEPT ![t] = SpendPriority(t)]
                       ELSE priority
        /\ state' = [st EXCEPT ![t] = "ACTIVE"]
        /\ allow_ts' = TRUE
  BY DEF Schedule
<1>2. policy[t] \in Policies /\ priority[t] \in 0..255
  BY DEF TypeOK
<1>3. SpendPriority(t) \in 0..255
  <2>. DEFINE left == (priority[t] - 1) % 256
  <2>1. left \in 0..255
    <3>1. \A n \in Int : n % 256 \in 0..255
      OBVIOUS
    <3>2. \A n \in 0..255 : n - 1 \in Int
      OBVIOUS
    <3>. QED
      BY <1>2, <3>1, <3>2
  <2>2. ReqPriority(policy[t]) \in 0..255
    BY NumbersAssumption DEF ReqPriority
  <2>3. SpendPriority(t) = IF left = 0 THEN ReqPriority(policy[t]) ELSE left
    BY DEF SpendPriority
  <2>. HIDE DEF left
  <2>. QED
    BY <2>1, <2>2, <2>3
<1>4. RemoveTask(avail[policy[t]], t) \in Seq(Tasks)
  BY <1>2, RemoveTaskElements
<1>5. available' \in [Policies -> Seq(Tasks)]
  BY <1>1, <1>2, <1>4
<1>6. priority' \in [AllTasks -> 0..255]
  BY <1>1, <1>3 DEF TypeOK
<1>7. state' \in [AllTasks -> States]
  BY <1>1 DEF States, InvalidStates
<1>. QED
  BY <1>1, <1>5, <1>6, <1>7

-----------------------------------------------------------------------------
(* What relates the lists to the states, in two parts.                       *)

\* The first: EachTaskInItsList, but that a terminated task may have left its list.
\* It is what is left of EachTaskInItsList once the cleaner has emptied that list.
ListsHoldStates(avail, slp, blk, trm, st) ==
  /\ \A p \in Policies : IsInjective(avail[p])
  /\ IsInjective(slp) /\ IsInjective(blk) /\ IsInjective(trm)
  /\ \A t \in Tasks :
       /\ \A p \in Policies :
            InList(t, avail[p]) <=> st[t] = "AVAILABLE" /\ policy[t] = p
       /\ InList(t, slp) <=> st[t] = "SLEEPING"
       /\ InList(t, blk) <=> st[t] = "BLOCKED"
       /\ InList(t, trm) => st[t] = "TERMINATED"

ListsHold == ListsHoldStates(available, sleeping, blocked, terminated, state)

\* The second: it has not.
TerminatedListed ==
  \A t \in Tasks : state[t] = "TERMINATED" => InList(t, terminated)

\* The two make EachTaskInItsList.
LEMMA TwoParts == EachTaskInItsList <=> ListsHold /\ TerminatedListed
BY DEF EachTaskInItsList, ListsMatchStates, ListsHold, ListsHoldStates, TerminatedListed

-----------------------------------------------------------------------------
(* The moves between lists.                                                 *)

NoListStates == {"UNBORN", "ACTIVE", "WAITING"}

\* task_block: a task that is in no list joins the list of its new state.
LEMMA JoinSleeping ==
  ASSUME NEW avail \in [Policies -> Seq(Tasks)], NEW slp \in Seq(Tasks),
         NEW blk \in Seq(Tasks), NEW trm \in Seq(Tasks),
         NEW st \in [AllTasks -> States],
         ListsHoldStates(avail, slp, blk, trm, st),
         NEW t \in Tasks, st[t] \in NoListStates
  PROVE  ListsHoldStates(avail, Append(slp, t), blk, trm, [st EXCEPT ![t] = "SLEEPING"])
<1>1. ~InList(t, slp)
  BY DEF ListsHoldStates, NoListStates
<1>2. IsInjective(Append(slp, t))
  BY <1>1, InjectiveAppend DEF ListsHoldStates
<1>3. \A u : InList(u, Append(slp, t)) <=> InList(u, slp) \/ u = t
  BY InListAppend
<1>. QED
  BY <1>2, <1>3 DEF ListsHoldStates, NoListStates, AllTasks

\* The same for a task that blocks.
LEMMA JoinBlocked ==
  ASSUME NEW avail \in [Policies -> Seq(Tasks)], NEW slp \in Seq(Tasks),
         NEW blk \in Seq(Tasks), NEW trm \in Seq(Tasks),
         NEW st \in [AllTasks -> States],
         ListsHoldStates(avail, slp, blk, trm, st),
         NEW t \in Tasks, st[t] \in NoListStates
  PROVE  ListsHoldStates(avail, slp, Append(blk, t), trm, [st EXCEPT ![t] = "BLOCKED"])
<1>1. ~InList(t, blk)
  BY DEF ListsHoldStates, NoListStates
<1>2. IsInjective(Append(blk, t))
  BY <1>1, InjectiveAppend DEF ListsHoldStates
<1>3. \A u : InList(u, Append(blk, t)) <=> InList(u, blk) \/ u = t
  BY InListAppend
<1>. QED
  BY <1>2, <1>3 DEF ListsHoldStates, NoListStates, AllTasks

\* The same for a task that terminates.
LEMMA JoinTerminated ==
  ASSUME NEW avail \in [Policies -> Seq(Tasks)], NEW slp \in Seq(Tasks),
         NEW blk \in Seq(Tasks), NEW trm \in Seq(Tasks),
         NEW st \in [AllTasks -> States],
         ListsHoldStates(avail, slp, blk, trm, st),
         NEW t \in Tasks, st[t] \in NoListStates
  PROVE  ListsHoldStates(avail, slp, blk, Append(trm, t), [st EXCEPT ![t] = "TERMINATED"])
<1>1. ~InList(t, trm)
  BY DEF ListsHoldStates, NoListStates
<1>2. IsInjective(Append(trm, t))
  BY <1>1, InjectiveAppend DEF ListsHoldStates
<1>3. \A u : InList(u, Append(trm, t)) <=> InList(u, trm) \/ u = t
  BY InListAppend
<1>. QED
  BY <1>2, <1>3 DEF ListsHoldStates, NoListStates, AllTasks

\* task_unblock: a task leaves its list and joins the available one of its policy.
LEMMA AvailableAfterAppend ==
  ASSUME NEW avail \in [Policies -> Seq(Tasks)], NEW t \in Tasks, policy[t] \in Policies,
         \A p \in Policies : IsInjective(avail[p]) /\ ~InList(t, avail[p])
  PROVE  /\ MakeAvailable(avail, t) \in [Policies -> Seq(Tasks)]
         /\ \A p \in Policies : IsInjective(MakeAvailable(avail, t)[p])
         /\ \A p \in Policies, u \in Tasks :
              InList(u, MakeAvailable(avail, t)[p])
                <=> InList(u, avail[p]) \/ (u = t /\ p = policy[t])
<1>1. /\ Append(avail[policy[t]], t) \in Seq(Tasks)
      /\ IsInjective(Append(avail[policy[t]], t))
      /\ \A u : InList(u, Append(avail[policy[t]], t)) <=> InList(u, avail[policy[t]]) \/ u = t
  BY InjectiveAppend, InListAppend
<1>2. MakeAvailable(avail, t) = [avail EXCEPT ![policy[t]] = Append(avail[policy[t]], t)]
  BY DEF MakeAvailable
<1>. QED
  BY <1>1, <1>2

\* task_unblock on a sleeper, and the tick.
LEMMA WakeSleeper ==
  ASSUME NEW avail \in [Policies -> Seq(Tasks)], NEW slp \in Seq(Tasks),
         NEW blk \in Seq(Tasks), NEW trm \in Seq(Tasks),
         NEW st \in [AllTasks -> States],
         ListsHoldStates(avail, slp, blk, trm, st),
         NEW t \in Tasks, st[t] = "SLEEPING", policy[t] \in Policies
  PROVE  ListsHoldStates(MakeAvailable(avail, t), RemoveTask(slp, t), blk, trm,
                          [st EXCEPT ![t] = "AVAILABLE"])
<1>1. \A p \in Policies : IsInjective(avail[p]) /\ ~InList(t, avail[p])
  BY DEF ListsHoldStates
<1>2. /\ IsInjective(RemoveTask(slp, t))
      /\ \A u : InList(u, RemoveTask(slp, t)) <=> InList(u, slp) /\ u # t
  BY RemoveTaskElements DEF ListsHoldStates
<1>3. /\ \A p \in Policies : IsInjective(MakeAvailable(avail, t)[p])
      /\ \A p \in Policies, u \in Tasks :
           InList(u, MakeAvailable(avail, t)[p])
             <=> InList(u, avail[p]) \/ (u = t /\ p = policy[t])
  BY <1>1, AvailableAfterAppend
<1>. QED
  BY <1>2, <1>3 DEF ListsHoldStates, AllTasks

\* The same for a blocked task.
LEMMA WakeBlocked ==
  ASSUME NEW avail \in [Policies -> Seq(Tasks)], NEW slp \in Seq(Tasks),
         NEW blk \in Seq(Tasks), NEW trm \in Seq(Tasks),
         NEW st \in [AllTasks -> States],
         ListsHoldStates(avail, slp, blk, trm, st),
         NEW t \in Tasks, st[t] = "BLOCKED", policy[t] \in Policies
  PROVE  ListsHoldStates(MakeAvailable(avail, t), slp, RemoveTask(blk, t), trm,
                          [st EXCEPT ![t] = "AVAILABLE"])
<1>1. \A p \in Policies : IsInjective(avail[p]) /\ ~InList(t, avail[p])
  BY DEF ListsHoldStates
<1>2. /\ IsInjective(RemoveTask(blk, t))
      /\ \A u : InList(u, RemoveTask(blk, t)) <=> InList(u, blk) /\ u # t
  BY RemoveTaskElements DEF ListsHoldStates
<1>3. /\ \A p \in Policies : IsInjective(MakeAvailable(avail, t)[p])
      /\ \A p \in Policies, u \in Tasks :
           InList(u, MakeAvailable(avail, t)[p])
             <=> InList(u, avail[p]) \/ (u = t /\ p = policy[t])
  BY <1>1, AvailableAfterAppend
<1>. QED
  BY <1>2, <1>3 DEF ListsHoldStates, AllTasks

\* The same for a terminated task.
LEMMA WakeTerminated ==
  ASSUME NEW avail \in [Policies -> Seq(Tasks)], NEW slp \in Seq(Tasks),
         NEW blk \in Seq(Tasks), NEW trm \in Seq(Tasks),
         NEW st \in [AllTasks -> States],
         ListsHoldStates(avail, slp, blk, trm, st),
         NEW t \in Tasks, st[t] = "TERMINATED", policy[t] \in Policies
  PROVE  ListsHoldStates(MakeAvailable(avail, t), slp, blk, RemoveTask(trm, t),
                          [st EXCEPT ![t] = "AVAILABLE"])
<1>1. \A p \in Policies : IsInjective(avail[p]) /\ ~InList(t, avail[p])
  BY DEF ListsHoldStates
<1>2. /\ IsInjective(RemoveTask(trm, t))
      /\ \A u : InList(u, RemoveTask(trm, t)) <=> InList(u, trm) /\ u # t
  BY RemoveTaskElements DEF ListsHoldStates
<1>3. /\ \A p \in Policies : IsInjective(MakeAvailable(avail, t)[p])
      /\ \A p \in Policies, u \in Tasks :
           InList(u, MakeAvailable(avail, t)[p])
             <=> InList(u, avail[p]) \/ (u = t /\ p = policy[t])
  BY <1>1, AvailableAfterAppend
<1>. QED
  BY <1>2, <1>3 DEF ListsHoldStates, AllTasks

-----------------------------------------------------------------------------
(* The dispatch.                                                            *)

\* One turn of the loop of schedule_priority_task, at the i-th task of list.
HighestStep(list, f, i) ==
  IF i = 1 THEN list[1]
  ELSE IF priority[list[i]] > priority[f[i - 1]] THEN list[i] ELSE f[i - 1]

\* The loop can be carried to the end of every list.
LEMMA SearchExists ==
  ASSUME NEW list \in Seq(Tasks)
  PROVE  \E f : f = [i \in DOMAIN list |-> HighestStep(list, f, i)]
<1>. DEFINE D == DOMAIN list
            N == {n \in Nat : \E f \in [D -> Tasks] :
                    \A i \in D : i <= n => f[i] = HighestStep(list, f, i)}
<1>1. D = 1..Len(list) /\ Len(list) \in Nat /\ \A i \in D : list[i] \in Tasks
  OBVIOUS
<1>. HIDE DEF D
<1>2. 0 \in N
  <2>1. [i \in D |-> list[i]] \in [D -> Tasks] /\ \A i \in D : ~ (i <= 0)
    BY <1>1
  <2>. QED
    BY <2>1
<1>3. ASSUME NEW n \in Nat, n \in N PROVE n + 1 \in N
  <2>1. PICK f \in [D -> Tasks] : \A i \in D : i <= n => f[i] = HighestStep(list, f, i)
    BY <1>3
  <2>. DEFINE g == [i \in D |-> IF i = n + 1 THEN HighestStep(list, f, i) ELSE f[i]]
  <2>2. \A i \in D : HighestStep(list, f, i) \in Tasks
    BY <1>1 DEF HighestStep
  <2>3. g \in [D -> Tasks]
    BY <2>2
  <2>4. ASSUME NEW i \in D, i <= n + 1 PROVE g[i] = HighestStep(list, g, i)
    <3>1. i # 1 => i - 1 \in D /\ i - 1 # n + 1
      BY <1>1, <2>4
    <3>2. HighestStep(list, g, i) = HighestStep(list, f, i)
      BY <3>1 DEF HighestStep
    <3>3. i # n + 1 => i <= n
      BY <1>1, <2>4
    <3>. QED
      BY <2>1, <3>2, <3>3
  <2>5. \A i \in D : i <= n + 1 => g[i] = HighestStep(list, g, i)
    BY <2>4
  <2>. HIDE DEF g
  <2>6. n + 1 \in Nat
    OBVIOUS
  <2>. QED
    BY <2>3, <2>5, <2>6
<1>. HIDE DEF N
<1>4. Len(list) \in N
  BY <1>1, <1>2, <1>3, SetInduction
<1>5. PICK f \in [D -> Tasks] : \A i \in D : i <= Len(list) => f[i] = HighestStep(list, f, i)
  BY <1>4 DEF N
<1>6. f = [i \in D |-> HighestStep(list, f, i)]
  BY <1>1, <1>5
<1>. QED
  BY <1>6 DEF D

\* Priorities can be compared.
LEMMA PriorityNumber ==
  ASSUME priority \in [AllTasks -> 0..255]
  PROVE  \A t \in AllTasks : priority[t] \in Int
OBVIOUS

\* The loop of schedule_priority_task ends at a task of the list, and none of the
\* list has a higher priority.
LEMMA SearchFindsHighest ==
  ASSUME NEW list \in Seq(Tasks), list # <<>>
  PROVE  /\ HighestPriorityTask(list) \in Tasks
         /\ InList(HighestPriorityTask(list), list)
         /\ priority \in [AllTasks -> 0..255] =>
              \A t \in Tasks : InList(t, list) => priority[t] <= priority[HighestPriorityTask(list)]
<1>. DEFINE highest == CHOOSE f : f = [i \in DOMAIN list |-> HighestStep(list, f, i)]
            Best(i) == \A j \in 1..i : priority[list[j]] <= priority[highest[i]]
            Found(i) == /\ highest[i] \in Tasks /\ InList(highest[i], list)
                        /\ priority \in [AllTasks -> 0..255] => Best(i)
            N == {n \in Nat : \A i \in 1..Len(list) : i <= n => Found(i)}
<1>1. /\ DOMAIN list = 1..Len(list) /\ Len(list) \in Nat /\ Len(list) >= 1
      /\ \A i \in 1..Len(list) : list[i] \in Tasks /\ InList(list[i], list)
  BY DEF InList
<1>2. HighestPriorityTask(list) = highest[Len(list)]
  BY DEF HighestPriorityTask, HighestStep
<1>3. highest = [i \in DOMAIN list |-> HighestStep(list, highest, i)]
  BY SearchExists
<1>. HIDE DEF highest
<1>4. \A i \in 1..Len(list) : highest[i] = HighestStep(list, highest, i)
  BY <1>1, <1>3
<1>5. 0 \in N
  OBVIOUS
<1>6. ASSUME NEW n \in Nat, n \in N PROVE n + 1 \in N
  <2>. HIDE DEF Found
  <2>. SUFFICES ASSUME NEW i \in 1..Len(list), i = n + 1 PROVE Found(i)
    <3>1. n + 1 \in Nat /\ \A i \in 1..Len(list) : i <= n + 1 => i <= n \/ i = n + 1
      OBVIOUS
    <3>2. \A i \in 1..Len(list) : i <= n => Found(i)
      BY <1>6
    <3>. QED
      BY <3>1, <3>2
  <2>. USE DEF Found
  <2>1. CASE i = 1
    <3>1. highest[i] = list[i] /\ list[i] \in Tasks /\ InList(list[i], list)
      BY <1>1, <1>4, <2>1 DEF HighestStep
    <3>2. ASSUME priority \in [AllTasks -> 0..255], NEW j \in 1..i
          PROVE  priority[list[j]] <= priority[highest[i]]
      <4>1. j = i /\ list[i] \in AllTasks
        BY <2>1, <3>1 DEF AllTasks
      <4>2. priority[list[i]] \in Int
        BY <3>2, <4>1, PriorityNumber, Zenon
      <4>. QED
        BY <3>1, <4>1, <4>2
    <3>. QED
      BY <3>1, <3>2
  <2>2. CASE i # 1
    <3>. DEFINE h == highest[i - 1]
    <3>1. /\ i - 1 \in 1..Len(list)
          /\ h \in Tasks /\ InList(h, list)
          /\ priority \in [AllTasks -> 0..255] => \A j \in 1..(i - 1) : priority[list[j]] <= priority[h]
      BY <1>6, <2>2
    <3>2. highest[i] = IF priority[list[i]] > priority[h] THEN list[i] ELSE h
      BY <1>4, <2>2 DEF HighestStep
    <3>. HIDE DEF h
    <3>3. ASSUME priority \in [AllTasks -> 0..255], NEW j \in 1..i
          PROVE  priority[list[j]] <= priority[highest[i]]
      <4>3. j \in 1..Len(list)
        OBVIOUS
      <4>4. list[i] \in AllTasks /\ h \in AllTasks /\ list[j] \in AllTasks
        BY <1>1, <3>1, <4>3 DEF AllTasks
      <4>5. \A x \in AllTasks : priority[x] \in Int
        BY <3>3, PriorityNumber
      <4>1. /\ priority[list[i]] \in Int /\ priority[h] \in Int /\ priority[list[j]] \in Int
        BY <4>4, <4>5, Zenon
      <4>2. CASE j = i
        BY <3>2, <4>1, <4>2
      <4>6. CASE j \in 1..(i - 1)
        <5>1. priority[list[j]] <= priority[h]
          BY <3>1, <3>3, <4>6
        <5>. QED
          BY <3>2, <4>1, <5>1
      <4>. QED
        BY <4>2, <4>6
    <3>4. highest[i] \in Tasks /\ InList(highest[i], list)
      BY <1>1, <3>1, <3>2
    <3>. QED
      BY <3>3, <3>4
  <2>. QED
    BY <2>1, <2>2
<1>. HIDE DEF Found
<1>7. Len(list) \in N
  <2>. HIDE DEF N
  <2>. QED
    BY <1>1, <1>5, <1>6, SetInduction
<1>8. Found(Len(list))
  BY <1>1, <1>7
<1>. USE DEF Found
<1>. QED
  BY <1>1, <1>2, <1>8 DEF InList

\* A task schedule() picks is ready, in the list of its policy.
LEMMA PickedTaskIsReady ==
  ASSUME NEW avail \in [Policies -> Seq(Tasks)], NEW slp \in Seq(Tasks),
         NEW blk \in Seq(Tasks), NEW trm \in Seq(Tasks),
         NEW st \in [AllTasks -> States],
         ListsHoldStates(avail, slp, blk, trm, st),
         NEW t \in Tasks, Picks(t, avail)
  PROVE  st[t] = "AVAILABLE"
<1>1. SchedulerTask \notin Tasks
  BY TasksAssumption
<1>2. PICK p \in Policies : InList(t, avail[p])
  <2>1. ASSUME NEW q \in {0, 1}, avail[q] # <<>>, t = HighestPriorityTask(avail[q])
        PROVE  \E p \in Policies : InList(t, avail[p])
    <3>1. avail[q] \in Seq(Tasks) /\ q \in Policies
      BY DEF Policies
    <3>. QED
      BY <2>1, <3>1, SearchFindsHighest
  <2>2. CASE (avail[2] # <<>> /\ t = avail[2][1]) \/ (avail[3] # <<>> /\ t = avail[3][1])
    <3>1. \A p \in Policies : avail[p] # <<>> => 1 \in DOMAIN avail[p]
      OBVIOUS
    <3>. QED
      BY <2>2, <3>1 DEF InList, Policies
  <2>. QED
    BY <1>1, <2>1, <2>2 DEF Picks
<1>. QED
  BY <1>2 DEF ListsHoldStates

\* When no task is active, schedule() makes exactly the task it picks active, and
\* takes it out of its list.
LEMMA ScheduleLists ==
  ASSUME TypeOK, UNCHANGED policy,
         NEW avail \in [Policies -> Seq(Tasks)], NEW slp \in Seq(Tasks),
         NEW blk \in Seq(Tasks), NEW trm \in Seq(Tasks),
         NEW st \in [AllTasks -> States],
         ListsHoldStates(avail, slp, blk, trm, st),
         \A t \in Tasks : st[t] # "ACTIVE",
         st[SchedulerTask] = "ACTIVE",
         Schedule(avail, st)
  PROVE  /\ ListsHoldStates(available', slp, blk, trm, state')
         /\ \A t \in Tasks : state'[t] = "ACTIVE" <=> t = running'
         /\ state'[SchedulerTask] = "ACTIVE"
<1>1. PICK t \in AllTasks :
        /\ Picks(t, avail)
        /\ running' = t
        /\ available' = IF t = SchedulerTask THEN avail
                        ELSE [avail EXCEPT ![policy[t]] = RemoveTask(@, t)]
        /\ state' = [st EXCEPT ![t] = "ACTIVE"]
  BY DEF Schedule
<1>2. SchedulerTask \notin Tasks
  BY TasksAssumption
<1>3. CASE t = SchedulerTask
  <2>1. available' = avail /\ state' = st
    BY <1>1, <1>3
  <2>. QED
    BY <1>1, <1>2, <1>3, <2>1
<1>4. CASE t \in Tasks
  <2>1. st[t] = "AVAILABLE" /\ policy[t] \in Policies
    <3>1. Picks(t, avail)
      BY <1>1
    <3>2. policy[t] \in Policies
      BY DEF TypeOK
    <3>. QED
      BY <1>4, <3>1, <3>2, PickedTaskIsReady
  <2>2. available' = [avail EXCEPT ![policy[t]] = RemoveTask(avail[policy[t]], t)]
    BY <1>1, <1>2, <1>4
  <2>3. /\ IsInjective(RemoveTask(avail[policy[t]], t))
        /\ \A u : InList(u, RemoveTask(avail[policy[t]], t))
                 <=> InList(u, avail[policy[t]]) /\ u # t
    BY <2>1, RemoveTaskElements DEF ListsHoldStates
  <2>4. \A p \in Policies :
          /\ IsInjective(available'[p])
          /\ \A u \in Tasks : InList(u, available'[p]) <=> InList(u, avail[p]) /\ u # t
    <3>1. available'[policy[t]] = RemoveTask(avail[policy[t]], t)
      BY <2>1, <2>2
    <3>2. \A p \in Policies : p # policy[t] => available'[p] = avail[p] /\ ~InList(t, avail[p])
      BY <1>4, <2>2 DEF ListsHoldStates
    <3>. QED
      BY <2>3, <3>1, <3>2 DEF ListsHoldStates
  <2>5. /\ state'[t] = "ACTIVE"
        /\ \A u \in Tasks : u # t => state'[u] = st[u]
    BY <1>1, <1>4 DEF AllTasks
  <2>6. ListsHoldStates(available', slp, blk, trm, state')
    BY <1>4, <2>1, <2>4, <2>5 DEF ListsHoldStates
  <2>. QED
    BY <1>1, <1>2, <1>4, <2>6 DEF AllTasks
<1>. QED
  BY <1>3, <1>4 DEF AllTasks

-----------------------------------------------------------------------------
(* The inductive invariant.  Type correctness is not inductive alone: that a   *)
(* list stays a list of tasks when a task is removed from it rests on there    *)
(* being no duplicates, and that on every task being where its state says.     *)

IInv == TypeOK /\ ListsHold /\ OnlyRunningIsActive

\* The state after boot satisfies the inductive invariant.
LEMMA InitIInv == Init => IInv
<1>. SUFFICES ASSUME Init PROVE IInv
  OBVIOUS
<1>1. SchedulerTask \notin Tasks /\ \A t : ~InList(t, <<>>) /\ IsInjective(<<>>)
  BY TasksAssumption, EmptyList
<1>2. TypeOK
  <2>1. 0 \in 0..(TimeModulus - 1) /\ DEFAULT_TIME_SLICE \in 1..DEFAULT_TIME_SLICE
    BY NumbersAssumption
  <2>2. 0 \in Policies /\ 0 \in 0..255 /\ 127 \in 0..255
    BY DEF Policies
  <2>3. "ACTIVE" \in States /\ "UNBORN" \in States
    BY DEF States, InvalidStates
  <2>4. <<>> \in Seq(Tasks) /\ SchedulerTask \in AllTasks
    BY DEF AllTasks
  <2>. QED
    BY <2>1, <2>2, <2>3, <2>4 DEF Init, TypeOK
<1>3. ListsHold
  BY <1>1 DEF Init, ListsHold, ListsHoldStates, AllTasks
<1>4. OnlyRunningIsActive
  BY <1>1 DEF Init, OnlyRunningIsActive, AllTasks
<1>. QED
  BY <1>2, <1>3, <1>4 DEF IInv

-----------------------------------------------------------------------------
(* One lemma per action.                                                    *)

\* A new task is in no list yet, and joins the one of its policy.
LEMMA CreateTaskIInv ==
  ASSUME IInv, NEW t \in Tasks, NEW p \in UsedPolicies, CreateTask(t, p)
  PROVE  IInv'
<1>. USE DEF IInv
<1>1. /\ p \in Policies /\ state[t] = "UNBORN" /\ t # SchedulerTask /\ t \in AllTasks
      /\ UNCHANGED <<running, looping, clockVars, sleeping, blocked, terminated>>
  BY TasksAssumption DEF CreateTask, AllTasks
<1>2. /\ state' = [state EXCEPT ![t] = "AVAILABLE"]
      /\ policy' = [policy EXCEPT ![t] = p]
      /\ priority' = [priority EXCEPT ![t] = ReqPriority(p)]
      /\ time_slice' = [time_slice EXCEPT ![t] = DEFAULT_TIME_SLICE]
      /\ available' = [available EXCEPT ![p] = Append(available[p], t)]
      /\ allow_ts' = TRUE
  BY DEF CreateTask
<1>3. ~InList(t, available[p]) /\ IsInjective(available[p])
  BY <1>1 DEF ListsHold, ListsHoldStates
<1>4. /\ Append(available[p], t) \in Seq(Tasks)
      /\ IsInjective(Append(available[p], t))
      /\ \A u : InList(u, Append(available[p], t)) <=> InList(u, available[p]) \/ u = t
  BY <1>1, <1>3, InjectiveAppend, InListAppend DEF TypeOK
<1>5. TypeOK'
  <2>1. ReqPriority(p) \in 0..255 /\ DEFAULT_TIME_SLICE \in 1..DEFAULT_TIME_SLICE
    BY NumbersAssumption DEF ReqPriority
  <2>2. state' \in [AllTasks -> States]
    BY <1>2 DEF TypeOK, States, InvalidStates
  <2>3. policy' \in [AllTasks -> Policies]
    BY <1>1, <1>2 DEF TypeOK
  <2>4. priority' \in [AllTasks -> 0..255]
    BY <1>2, <2>1 DEF TypeOK
  <2>5. time_slice' \in [AllTasks -> 1..DEFAULT_TIME_SLICE]
    BY <1>2, <2>1 DEF TypeOK
  <2>6. available' \in [Policies -> Seq(Tasks)]
    BY <1>1, <1>2, <1>4 DEF TypeOK
  <2>. QED
    BY <1>1, <1>2, <2>2, <2>3, <2>4, <2>5, <2>6 DEF TypeOK, clockVars
<1>6. ListsHold'
  <2>1. \A q \in Policies, u \in Tasks :
          InList(u, available'[q]) <=> InList(u, available[q]) \/ (u = t /\ q = p)
    BY <1>1, <1>2, <1>4 DEF TypeOK
  <2>2. \A q \in Policies : IsInjective(available'[q])
    BY <1>1, <1>2, <1>4 DEF TypeOK, ListsHold, ListsHoldStates
  <2>3. \A u \in Tasks : u # t => state'[u] = state[u] /\ policy'[u] = policy[u]
    BY <1>2 DEF TypeOK, AllTasks
  <2>4. state'[t] = "AVAILABLE" /\ policy'[t] = p
    BY <1>1, <1>2 DEF TypeOK
  <2>. QED
    BY <1>1, <2>1, <2>2, <2>3, <2>4 DEF ListsHold, ListsHoldStates
<1>7. OnlyRunningIsActive'
  BY <1>1, <1>2 DEF OnlyRunningIsActive, TypeOK, AllTasks
<1>. QED
  BY <1>5, <1>6, <1>7

\* How the terminated list and the tasks that belong in it change together, st being
\* the states before schedule() picks a task: not at all, by the end of the running
\* task, or by task_unblock.
TerminatedMoves(st) ==
  \/ /\ terminated' = terminated
     /\ \A t \in Tasks : st[t] = "TERMINATED" <=> state[t] = "TERMINATED"
  \/ /\ terminated' = Append(terminated, running) /\ running \in Tasks
     /\ \A t \in Tasks : st[t] = "TERMINATED" <=> state[t] = "TERMINATED" \/ t = running
  \/ \E u \in Tasks :
       /\ state[u] = "TERMINATED" /\ terminated' = RemoveTask(terminated, u)
       /\ \A t \in Tasks : st[t] = "TERMINATED" <=> state[t] = "TERMINATED" /\ t # u

\* No task is made or unmade.
SameTasks(st) == \A t \in Tasks : st[t] = "UNBORN" <=> state[t] = "UNBORN"

\* Time slices are spent by the running task alone.
OthersKeepSlice == \A t \in Tasks \ {running} : time_slice'[t] = time_slice[t]

\* A step that calls schedule(), with the lists and the states schedule() finds.
Dispatch(avail, st) ==
  /\ ListsHoldStates(avail, sleeping', blocked', terminated', st)
  /\ sleeping' \in Seq(Tasks) /\ blocked' \in Seq(Tasks) /\ terminated' \in Seq(Tasks)
  /\ \A t \in Tasks : st[t] # "ACTIVE"
  /\ st[SchedulerTask] = "ACTIVE"
  /\ Schedule(avail, st)
  /\ UNCHANGED policy
  /\ looping' \in BOOLEAN
  /\ time_counter' \in 0..(TimeModulus - 1)
  /\ naptime' \in [AllTasks -> 0..(TimeModulus - 1)]
  /\ time_slice' \in [AllTasks -> 1..DEFAULT_TIME_SLICE]
  /\ OthersKeepSlice
  /\ running \in Tasks => time_slice'[running] = DEFAULT_TIME_SLICE
  /\ TerminatedMoves(st) /\ SameTasks(st)

Dispatches ==
  \E avail \in [Policies -> Seq(Tasks)], st \in [AllTasks -> States] : Dispatch(avail, st)

\* A step that does not.
Stays ==
  /\ UNCHANGED <<running, policy, priority>>
  /\ OthersKeepSlice
  /\ TerminatedMoves(state') /\ SameTasks(state')

\* Every action that ends in schedule() runs it on lists that hold the states,
\* with no task active: the invariant holds again after it.
LEMMA DispatchIInv ==
  ASSUME IInv,
         NEW avail \in [Policies -> Seq(Tasks)], NEW st \in [AllTasks -> States],
         Dispatch(avail, st)
  PROVE  IInv'
<1>. USE DEF IInv
<1>1. ListsHoldStates(avail, sleeping', blocked', terminated', st) /\ Schedule(avail, st)
  BY DEF Dispatch
<1>2. /\ running' \in AllTasks
      /\ available' \in [Policies -> Seq(Tasks)]
      /\ priority' \in [AllTasks -> 0..255]
      /\ state' \in [AllTasks -> States]
      /\ allow_ts' \in BOOLEAN
  <2>1. \A p \in Policies : IsInjective(avail[p])
    BY <1>1 DEF ListsHoldStates
  <2>. QED
    BY <1>1, <2>1, ScheduleType
<1>3. TypeOK'
  BY <1>2 DEF TypeOK, Dispatch
<1>4. /\ ListsHoldStates(available', sleeping', blocked', terminated', state')
      /\ \A t \in Tasks : state'[t] = "ACTIVE" <=> t = running'
      /\ state'[SchedulerTask] = "ACTIVE"
  <2>. DEFINE slp == sleeping' blk == blocked' trm == terminated'
  <2>1. /\ slp \in Seq(Tasks) /\ blk \in Seq(Tasks) /\ trm \in Seq(Tasks)
        /\ ListsHoldStates(avail, slp, blk, trm, st) /\ UNCHANGED policy
        /\ (\A t \in Tasks : st[t] # "ACTIVE") /\ st[SchedulerTask] = "ACTIVE"
    BY DEF Dispatch
  <2>. HIDE DEF slp, blk, trm
  <2>2. /\ ListsHoldStates(available', slp, blk, trm, state')
        /\ \A t \in Tasks : state'[t] = "ACTIVE" <=> t = running'
        /\ state'[SchedulerTask] = "ACTIVE"
    BY <1>1, <2>1, ScheduleLists
  <2>. QED
    BY <2>2 DEF slp, blk, trm
<1>. QED
  BY <1>1, <1>3, <1>4 DEF ListsHold, OnlyRunningIsActive, ListsHoldStates, Dispatch

\* The idle loop dispatches from the states it finds: none is active but its own.
LEMMA IdleLoopIInv ==
  ASSUME IInv, IdleLoop
  PROVE  IInv' /\ (Dispatches \/ Stays)
<1>. USE DEF IInv
<1>1. /\ looping' = TRUE /\ running = SchedulerTask /\ SchedulerTask \notin Tasks
      /\ UNCHANGED <<clockVars, sleeping, blocked, terminated, policy, time_slice>>
  BY TasksAssumption DEF IdleLoop
<1>2. CASE allow_ts
  <2>1. Schedule(available, state)
    BY <1>2 DEF IdleLoop
  <2>2. (\A t \in Tasks : state[t] # "ACTIVE") /\ state[SchedulerTask] = "ACTIVE"
    BY <1>1 DEF OnlyRunningIsActive
  <2>3. Dispatch(available, state)
    BY <1>1, <2>1, <2>2
    DEF TypeOK, ListsHold, clockVars, Dispatch, TerminatedMoves, SameTasks, OthersKeepSlice
  <2>4. available \in [Policies -> Seq(Tasks)] /\ state \in [AllTasks -> States]
    BY DEF TypeOK
  <2>. QED
    BY <2>3, <2>4, DispatchIInv DEF Dispatches
<1>3. CASE ~allow_ts
  <2>1. UNCHANGED <<running, available, priority, state, allow_ts>>
    BY <1>3 DEF IdleLoop
  <2>2. IInv'
    BY <1>1, <2>1 DEF TypeOK, ListsHold, OnlyRunningIsActive, ListsHoldStates, clockVars
  <2>. QED
    BY <1>1, <2>1, <2>2 DEF Stays, TerminatedMoves, SameTasks, OthersKeepSlice
<1>. QED
  BY <1>2, <1>3

\* What task_block starts from and what it does to the running task's slice.
LEMMA BlockingTask ==
  ASSUME IInv, running \in Tasks
  PROVE  /\ state[running] = "ACTIVE" /\ state[running] \in NoListStates
         /\ SchedulerTask # running /\ state[SchedulerTask] = "ACTIVE"
         /\ [time_slice EXCEPT ![running] = DEFAULT_TIME_SLICE]
              \in [AllTasks -> 1..DEFAULT_TIME_SLICE]
         /\ \A s \in States \ {"ACTIVE", "UNBORN"} :
              LET st == [state EXCEPT ![running] = s]
              IN  /\ st \in [AllTasks -> States]
                  /\ \A t \in Tasks : st[t] # "ACTIVE"
                  /\ st[SchedulerTask] = "ACTIVE"
                  /\ SameTasks(st)
                  /\ \A t \in Tasks : st[t] = (IF t = running THEN s ELSE state[t])
<1>1. SchedulerTask # running
  BY TasksAssumption
<1>2. DEFAULT_TIME_SLICE \in 1..DEFAULT_TIME_SLICE
  BY NumbersAssumption
<1>3. [time_slice EXCEPT ![running] = DEFAULT_TIME_SLICE] \in [AllTasks -> 1..DEFAULT_TIME_SLICE]
  BY <1>2 DEF IInv, TypeOK
<1>4. ASSUME NEW s \in States \ {"ACTIVE", "UNBORN"}
      PROVE  LET st == [state EXCEPT ![running] = s]
             IN  /\ st \in [AllTasks -> States]
                 /\ \A t \in Tasks : st[t] # "ACTIVE"
                 /\ st[SchedulerTask] = "ACTIVE"
                 /\ SameTasks(st)
                 /\ \A t \in Tasks : st[t] = (IF t = running THEN s ELSE state[t])
  BY <1>1 DEF IInv, TypeOK, OnlyRunningIsActive, AllTasks, SameTasks
<1>. QED
  BY <1>1, <1>3, <1>4 DEF IInv, OnlyRunningIsActive, NoListStates

\* A task leaves the processor with a full slice.
LEMMA SliceFilled ==
  ASSUME IInv, running \in Tasks,
         time_slice' = [time_slice EXCEPT ![running] = DEFAULT_TIME_SLICE]
  PROVE  /\ time_slice' \in [AllTasks -> 1..DEFAULT_TIME_SLICE]
         /\ OthersKeepSlice
         /\ time_slice'[running] = DEFAULT_TIME_SLICE
BY BlockingTask DEF IInv, TypeOK, OthersKeepSlice, AllTasks

\* sleep() moves the running task to the sleeping list, then dispatches.
LEMMA SleepIInv ==
  ASSUME IInv, NEW ms \in SleepTimes, Sleep(ms)
  PROVE  IInv' /\ Dispatches
<1>. DEFINE st == [state EXCEPT ![running] = "SLEEPING"]
            slp == Append(sleeping, running)
<1>1. /\ running \in Tasks
      /\ UNCHANGED <<looping, time_counter, blocked, terminated, policy>>
  BY DEF Sleep, UserRunning
<1>2. Schedule(available, st) /\ sleeping' = slp
  BY DEF Sleep
<1>3. "SLEEPING" \in States \ {"ACTIVE", "UNBORN"}
  BY DEF States
<1>4. /\ st \in [AllTasks -> States]
      /\ \A t \in Tasks : st[t] # "ACTIVE"
      /\ st[SchedulerTask] = "ACTIVE"
      /\ SameTasks(st)
      /\ \A t \in Tasks : st[t] = (IF t = running THEN "SLEEPING" ELSE state[t])
  BY <1>1, <1>3, BlockingTask
<1>5. ListsHoldStates(available, slp, blocked, terminated, st)
  BY <1>1, BlockingTask, JoinSleeping DEF IInv, TypeOK, ListsHold
<1>6. slp \in Seq(Tasks)
  BY <1>1 DEF IInv, TypeOK
<1>7. naptime' \in [AllTasks -> 0..(TimeModulus - 1)]
  <2>1. WakeTime(ms, time_counter) \in 0..(TimeModulus - 1)
    <3>1. ms \in Nat
      BY NumbersAssumption
    <3>2. time_counter \in Nat
      BY NumbersAssumption DEF IInv, TypeOK
    <3>. QED
      BY <3>1, <3>2, WakeTimeType
  <2>. QED
    BY <2>1 DEF Sleep, IInv, TypeOK
<1>8. time_slice' = [time_slice EXCEPT ![running] = DEFAULT_TIME_SLICE]
  BY DEF Sleep
<1>9. TerminatedMoves(st)
  BY <1>1, <1>4, BlockingTask DEF TerminatedMoves
<1>. HIDE DEF st, slp
<1>10. Dispatch(available, st)
  BY <1>1, <1>2, <1>4, <1>5, <1>6, <1>7, <1>8, <1>9, BlockingTask, SliceFilled
  DEF IInv, TypeOK, Dispatch
<1>. QED
  BY <1>4, <1>10, DispatchIInv DEF IInv, TypeOK, Dispatches

\* task_block(TASK_BLOCKED) moves it to the blocked list.
LEMMA BlockIInv ==
  ASSUME IInv, Block
  PROVE  IInv' /\ Dispatches
<1>. DEFINE st == [state EXCEPT ![running] = "BLOCKED"]
            blk == Append(blocked, running)
<1>1. /\ running \in Tasks
      /\ UNCHANGED <<looping, clockVars, sleeping, terminated, policy>>
  BY DEF Block
<1>2. Schedule(available, st) /\ blocked' = blk
  BY DEF Block
<1>3. "BLOCKED" \in States \ {"ACTIVE", "UNBORN"}
  BY DEF States
<1>4. /\ st \in [AllTasks -> States]
      /\ \A t \in Tasks : st[t] # "ACTIVE"
      /\ st[SchedulerTask] = "ACTIVE"
      /\ SameTasks(st)
      /\ \A t \in Tasks : st[t] = (IF t = running THEN "BLOCKED" ELSE state[t])
  BY <1>1, <1>3, BlockingTask
<1>5. ListsHoldStates(available, sleeping, blk, terminated, st)
  BY <1>1, BlockingTask, JoinBlocked DEF IInv, TypeOK, ListsHold
<1>6. blk \in Seq(Tasks)
  BY <1>1 DEF IInv, TypeOK
<1>7. time_slice' = [time_slice EXCEPT ![running] = DEFAULT_TIME_SLICE]
  BY DEF Block
<1>8. TerminatedMoves(st)
  BY <1>1, <1>4, BlockingTask DEF TerminatedMoves
<1>. HIDE DEF st, blk
<1>9. Dispatch(available, st)
  BY <1>1, <1>2, <1>4, <1>5, <1>6, <1>7, <1>8, BlockingTask, SliceFilled
  DEF IInv, TypeOK, clockVars, Dispatch
<1>. QED
  BY <1>4, <1>9, DispatchIInv DEF IInv, TypeOK, Dispatches

\* terminate_task moves two tasks: the cleaner, if it is blocked, and the caller.
LEMMA TerminateIInv ==
  ASSUME IInv, Terminate
  PROVE  IInv' /\ Dispatches
<1>. DEFINE st == [state EXCEPT ![running] = "TERMINATED"]
            trm == Append(terminated, running)
<1>1. /\ running \in Tasks
      /\ UNCHANGED <<looping, clockVars, sleeping, policy>>
      /\ terminated' = trm
  BY DEF Terminate, UserRunning
<1>2. "TERMINATED" \in States \ {"ACTIVE", "UNBORN"}
  BY DEF States
<1>3. /\ st \in [AllTasks -> States]
      /\ \A t \in Tasks : st[t] # "ACTIVE"
      /\ st[SchedulerTask] = "ACTIVE"
      /\ SameTasks(st)
      /\ \A t \in Tasks : st[t] = (IF t = running THEN "TERMINATED" ELSE state[t])
  BY <1>1, <1>2, BlockingTask
<1>4. ListsHoldStates(available, sleeping, blocked, trm, st)
  BY <1>1, BlockingTask, JoinTerminated DEF IInv, TypeOK, ListsHold
<1>5. trm \in Seq(Tasks)
  BY <1>1 DEF IInv, TypeOK
<1>6. time_slice' = [time_slice EXCEPT ![running] = DEFAULT_TIME_SLICE]
  BY DEF Terminate
<1>7. CASE state[CleanerTask] # "BLOCKED"
  <2>1. Schedule(available, st) /\ UNCHANGED blocked
    BY <1>7 DEF Terminate
  <2>2. TerminatedMoves(st)
    BY <1>1, <1>3 DEF TerminatedMoves
  <2>. HIDE DEF st, trm
  <2>3. Dispatch(available, st)
    BY <1>1, <1>3, <1>4, <1>5, <1>6, <2>1, <2>2, BlockingTask, SliceFilled
    DEF IInv, TypeOK, clockVars, Dispatch
  <2>. QED
    BY <1>3, <2>3, DispatchIInv DEF IInv, TypeOK, Dispatches
<1>8. CASE state[CleanerTask] = "BLOCKED"
  <2>. DEFINE st2 == [st EXCEPT ![CleanerTask] = "AVAILABLE"]
              avail == MakeAvailable(available, CleanerTask)
              blk == RemoveTask(blocked, CleanerTask)
  <2>1. Schedule(avail, st2) /\ blocked' = blk
    BY <1>8 DEF Terminate
  <2>2. /\ CleanerTask \in Tasks /\ CleanerTask # running /\ CleanerTask \in AllTasks
        /\ SchedulerTask # CleanerTask
        /\ policy[CleanerTask] \in Policies
    BY <1>1, <1>8, BlockingTask, TasksAssumption DEF IInv, TypeOK, AllTasks
  <2>3. st[CleanerTask] = "BLOCKED"
    BY <1>8, <2>2 DEF IInv, TypeOK
  <2>4. "AVAILABLE" \in States
    BY DEF States, InvalidStates
  <2>5. /\ available \in [Policies -> Seq(Tasks)] /\ sleeping \in Seq(Tasks)
        /\ blocked \in Seq(Tasks)
    BY DEF IInv, TypeOK
  <2>. HIDE DEF st, trm
  <2>6. ListsHoldStates(avail, sleeping, blk, trm, st2)
    BY <1>3, <1>4, <1>5, <2>2, <2>3, <2>5, WakeBlocked
  <2>7. /\ st2 \in [AllTasks -> States]
        /\ \A t \in Tasks : st2[t] # "ACTIVE"
        /\ st2[SchedulerTask] = "ACTIVE"
        /\ \A t \in Tasks : st2[t] = (IF t = CleanerTask THEN "AVAILABLE" ELSE st[t])
    BY <1>3, <2>2, <2>4 DEF AllTasks
  <2>8. avail \in [Policies -> Seq(Tasks)]
    BY <2>2, <2>5 DEF MakeAvailable
  <2>9. blk \in Seq(Tasks)
    BY <2>5, RemoveTaskElements DEF IInv, ListsHold, ListsHoldStates
  <2>10. SameTasks(st2)
    BY <1>3, <1>8, <2>2, <2>7 DEF SameTasks
  <2>11. \A t \in Tasks : st2[t] = "TERMINATED" <=> state[t] = "TERMINATED" \/ t = running
    BY <1>3, <1>8, <2>2, <2>7
  <2>12. TerminatedMoves(st2)
    BY <1>1, <2>11 DEF TerminatedMoves, trm
  <2>. HIDE DEF st2, avail, blk
  <2>13. Dispatch(avail, st2)
    BY <1>1, <1>5, <1>6, <2>1, <2>6, <2>7, <2>8, <2>9, <2>10, <2>12, BlockingTask, SliceFilled
    DEF IInv, TypeOK, clockVars, Dispatch
  <2>. QED
    BY <2>7, <2>8, <2>13, DispatchIInv DEF Dispatches
<1>. QED
  BY <1>7, <1>8

\* task_unblock moves a blocked, sleeping or terminated task to the list of its
\* policy.
LEMMA UnblockIInv ==
  ASSUME IInv, NEW t \in Tasks, Unblock(t)
  PROVE  IInv' /\ Stays
<1>. DEFINE st == [state EXCEPT ![t] = "AVAILABLE"]
            avail == MakeAvailable(available, t)
<1>1. /\ UNCHANGED <<running, looping, clockVars, policy, priority, time_slice>>
      /\ allow_ts' = TRUE /\ available' = avail /\ state' = st
  BY DEF Unblock
<1>2. /\ available \in [Policies -> Seq(Tasks)] /\ sleeping \in Seq(Tasks)
      /\ blocked \in Seq(Tasks) /\ terminated \in Seq(Tasks)
      /\ state \in [AllTasks -> States] /\ policy[t] \in Policies
  BY DEF IInv, TypeOK, AllTasks
<1>3. ListsHoldStates(available, sleeping, blocked, terminated, state)
  BY DEF IInv, ListsHold
<1>4. st \in [AllTasks -> States]
  BY <1>2 DEF States, InvalidStates
<1>5. avail \in [Policies -> Seq(Tasks)]
  BY <1>2 DEF MakeAvailable
<1>6. state[t] # "ACTIVE" /\ state[t] # "UNBORN" /\ t # SchedulerTask
  BY TasksAssumption DEF Unblock
<1>7. OnlyRunningIsActive'
  BY <1>1, <1>2, <1>6 DEF IInv, OnlyRunningIsActive, AllTasks
<1>8. \A u \in Tasks : state'[u] = (IF u = t THEN "AVAILABLE" ELSE state[u])
  BY <1>1, <1>2 DEF AllTasks
<1>9. SameTasks(state') /\ OthersKeepSlice
  BY <1>1, <1>6, <1>8 DEF SameTasks, OthersKeepSlice
<1>10. CASE state[t] = "BLOCKED"
  <2>1. blocked' = RemoveTask(blocked, t) /\ sleeping' = sleeping /\ terminated' = terminated
    BY <1>10 DEF Unblock
  <2>2. blocked' \in Seq(Tasks)
    BY <1>2, <1>3, <2>1, RemoveTaskElements DEF ListsHoldStates
  <2>3. ListsHoldStates(avail, sleeping, RemoveTask(blocked, t), terminated, st)
    BY <1>2, <1>3, <1>10, WakeBlocked
  <2>4. TerminatedMoves(state')
    BY <1>8, <1>10, <2>1 DEF TerminatedMoves
  <2>. HIDE DEF st, avail
  <2>. QED
    BY <1>1, <1>4, <1>5, <1>7, <1>9, <2>1, <2>2, <2>3, <2>4
    DEF IInv, TypeOK, ListsHold, ListsHoldStates, clockVars, Stays
<1>11. CASE state[t] = "SLEEPING"
  <2>1. sleeping' = RemoveTask(sleeping, t) /\ blocked' = blocked /\ terminated' = terminated
    BY <1>11 DEF Unblock
  <2>2. sleeping' \in Seq(Tasks)
    BY <1>2, <1>3, <2>1, RemoveTaskElements DEF ListsHoldStates
  <2>3. ListsHoldStates(avail, RemoveTask(sleeping, t), blocked, terminated, st)
    BY <1>2, <1>3, <1>11, WakeSleeper
  <2>4. TerminatedMoves(state')
    BY <1>8, <1>11, <2>1 DEF TerminatedMoves
  <2>. HIDE DEF st, avail
  <2>. QED
    BY <1>1, <1>4, <1>5, <1>7, <1>9, <2>1, <2>2, <2>3, <2>4
    DEF IInv, TypeOK, ListsHold, ListsHoldStates, clockVars, Stays
<1>12. CASE state[t] = "TERMINATED"
  <2>1. terminated' = RemoveTask(terminated, t) /\ sleeping' = sleeping /\ blocked' = blocked
    BY <1>12 DEF Unblock
  <2>2. terminated' \in Seq(Tasks)
    BY <1>2, <1>3, <2>1, RemoveTaskElements DEF ListsHoldStates
  <2>3. ListsHoldStates(avail, sleeping, blocked, RemoveTask(terminated, t), st)
    BY <1>2, <1>3, <1>12, WakeTerminated
  <2>4. \A u \in Tasks : state'[u] = "TERMINATED" <=> state[u] = "TERMINATED" /\ u # t
    BY <1>8
  <2>5. TerminatedMoves(state')
    BY <1>12, <2>1, <2>4 DEF TerminatedMoves
  <2>. HIDE DEF st, avail
  <2>. QED
    BY <1>1, <1>4, <1>5, <1>7, <1>9, <2>1, <2>2, <2>3, <2>5
    DEF IInv, TypeOK, ListsHold, ListsHoldStates, clockVars, Stays
<1>. QED
  BY <1>10, <1>11, <1>12 DEF Unblock

\* A call that returns early touches nothing but the lock.
LEMMA InvalidCallIInv ==
  ASSUME IInv, BlockInvalid \/ \E t \in Tasks : UnblockInvalid(t)
  PROVE  IInv' /\ Stays
<1>1. allow_ts' = FALSE /\ UNCHANGED <<running, looping, clockVars, listVars, taskVars>>
  BY DEF BlockInvalid, UnblockInvalid
<1>2. TypeOK'
  BY <1>1 DEF IInv, TypeOK, clockVars, listVars, taskVars
<1>3. ListsHold' /\ OnlyRunningIsActive'
  BY <1>1 DEF IInv, ListsHold, ListsHoldStates, OnlyRunningIsActive, listVars, taskVars
<1>4. Stays
  BY <1>1 DEF Stays, OthersKeepSlice, TerminatedMoves, SameTasks, listVars, taskVars
<1>. QED
  BY <1>2, <1>3, <1>4 DEF IInv

\* manage_time_slice, on the lists manage_sleeping_tasks left.
LEMMA ManageTimeSliceIInv ==
  ASSUME IInv,
         NEW avail \in [Policies -> Seq(Tasks)], NEW slp \in Seq(Tasks),
         NEW st \in [AllTasks -> States], NEW nap \in [AllTasks -> 0..(TimeModulus - 1)],
         NEW now \in Nat,
         ListsHoldStates(avail, slp, blocked, terminated, st),
         \A t \in Tasks : st[t] = "ACTIVE" <=> t = running,
         st[SchedulerTask] = "ACTIVE",
         SameTasks(st), TerminatedMoves(st),
         UNCHANGED <<looping, blocked, terminated, policy>>,
         time_counter' \in 0..(TimeModulus - 1),
         ManageTimeSlice(avail, slp, st, nap, now)
  PROVE  IInv' /\ (Dispatches \/ Stays)
<1>1. /\ blocked \in Seq(Tasks) /\ terminated \in Seq(Tasks) /\ looping' \in BOOLEAN
      /\ policy' \in [AllTasks -> Policies]
  BY DEF IInv, TypeOK
<1>2. CASE /\ available' = avail /\ sleeping' = slp /\ state' = st /\ naptime' = nap
           /\ allow_ts' = TRUE
           /\ UNCHANGED <<running, priority>>
           /\ time_slice' \in [AllTasks -> 1..DEFAULT_TIME_SLICE]
           /\ OthersKeepSlice
  <2>1. TypeOK'
    BY <1>1, <1>2 DEF IInv, TypeOK
  <2>2. Stays
    BY <1>2 DEF Stays
  <2>. QED
    BY <1>2, <2>1, <2>2 DEF IInv, ListsHold, ListsHoldStates, OnlyRunningIsActive
<1>3. CASE running = SchedulerTask
  BY <1>2, <1>3 DEF ManageTimeSlice, IInv, TypeOK, OthersKeepSlice
<1>4. CASE running # SchedulerTask /\ time_slice[running] # 1
  <2>1. time_slice[running] - 1 \in 1..DEFAULT_TIME_SLICE
    <3>1. time_slice[running] \in 1..DEFAULT_TIME_SLICE
      BY DEF IInv, TypeOK
    <3>. QED
      BY <1>4, <3>1, NumbersAssumption
  <2>2. time_slice' = [time_slice EXCEPT ![running] = @ - 1]
    BY <1>4 DEF ManageTimeSlice
  <2>3. time_slice' \in [AllTasks -> 1..DEFAULT_TIME_SLICE] /\ OthersKeepSlice
    BY <2>1, <2>2 DEF IInv, TypeOK, OthersKeepSlice, AllTasks
  <2>. QED
    BY <1>2, <1>4, <2>3 DEF ManageTimeSlice
<1>5. CASE running # SchedulerTask /\ time_slice[running] = 1
  <2>. DEFINE st2 == [st EXCEPT ![running] = "SLEEPING"]
              slp2 == Append(slp, running)
  <2>1. running \in Tasks /\ st[running] = "ACTIVE" /\ SchedulerTask \notin Tasks
    BY <1>5, TasksAssumption DEF IInv, TypeOK, AllTasks
  <2>2. st2 \in [AllTasks -> States]
    BY DEF States
  <2>3. slp2 \in Seq(Tasks)
    BY <2>1
  <2>4. st[running] \in NoListStates
    BY <2>1 DEF NoListStates
  <2>5. ListsHoldStates(avail, slp2, blocked, terminated, st2)
    BY <1>1, <2>1, <2>4, JoinSleeping
  <2>6. (\A t \in Tasks : st2[t] # "ACTIVE") /\ st2[SchedulerTask] = "ACTIVE"
    BY <2>1 DEF AllTasks
  <2>7. /\ Schedule(avail, st2) /\ sleeping' = slp2
        /\ naptime' = [nap EXCEPT ![running] = WakeTime(1, now)]
        /\ time_slice' = [time_slice EXCEPT ![running] = DEFAULT_TIME_SLICE]
    BY <1>5 DEF ManageTimeSlice
  <2>8. naptime' \in [AllTasks -> 0..(TimeModulus - 1)]
    BY <2>7, WakeTimeType
  <2>9. \A t \in Tasks : st2[t] = (IF t = running THEN "SLEEPING" ELSE st[t])
    BY <2>1 DEF AllTasks
  <2>10. SameTasks(st2)
    BY <2>1, <2>9 DEF SameTasks
  <2>11. TerminatedMoves(st2)
    <3>1. \A t \in Tasks : st2[t] = "TERMINATED" <=> st[t] = "TERMINATED"
      BY <2>1, <2>9
    <3>. QED
      BY <3>1 DEF TerminatedMoves
  <2>. HIDE DEF st2, slp2
  <2>12. Dispatch(avail, st2)
    BY <1>1, <2>1, <2>2, <2>3, <2>5, <2>6, <2>7, <2>8, <2>10, <2>11, SliceFilled
    DEF Dispatch
  <2>. QED
    BY <2>2, <2>12, DispatchIInv DEF Dispatches
<1>. QED
  BY <1>3, <1>4, <1>5

\* A clock interrupt wakes at most one sleeper, then accounts for the time slice.
LEMMA TickIInv ==
  ASSUME IInv, Tick
  PROVE  IInv' /\ (Dispatches \/ Stays)
<1>. DEFINE now == (time_counter + 1) % TimeModulus
<1>1. now \in 0..(TimeModulus - 1) /\ now \in Nat
  <2>1. time_counter + 1 \in Nat
    BY NumbersAssumption DEF IInv, TypeOK
  <2>. QED
    BY <2>1, NumbersAssumption
<1>2. /\ available \in [Policies -> Seq(Tasks)] /\ sleeping \in Seq(Tasks)
      /\ blocked \in Seq(Tasks) /\ terminated \in Seq(Tasks)
      /\ state \in [AllTasks -> States]
      /\ naptime \in [AllTasks -> 0..(TimeModulus - 1)]
      /\ policy \in [AllTasks -> Policies]
  BY DEF IInv, TypeOK
<1>3. ListsHoldStates(available, sleeping, blocked, terminated, state)
  BY DEF IInv, ListsHold
<1>4. (\A t \in Tasks : state[t] = "ACTIVE" <=> t = running) /\ state[SchedulerTask] = "ACTIVE"
  BY DEF IInv, OnlyRunningIsActive
<1>5. time_counter' = now /\ UNCHANGED <<looping, blocked, terminated, policy>>
  BY DEF Tick, TickNoneDue, TickWakes
<1>6. CASE TickNoneDue
  <2>1. ManageTimeSlice(available, sleeping, state, naptime, now)
    BY <1>6 DEF TickNoneDue
  <2>2. SameTasks(state) /\ TerminatedMoves(state)
    BY <1>5 DEF SameTasks, TerminatedMoves
  <2>. HIDE DEF now
  <2>. QED
    BY <1>1, <1>2, <1>3, <1>4, <1>5, <2>1, <2>2, ManageTimeSliceIInv
<1>7. ASSUME NEW t \in Tasks, TickWakes(t)
      PROVE  IInv' /\ (Dispatches \/ Stays)
  <2>. DEFINE avail == MakeAvailable(available, t)
              slp == RemoveTask(sleeping, t)
              st == [state EXCEPT ![t] = "AVAILABLE"]
              nap == [naptime EXCEPT ![t] = 0]
  <2>1. ManageTimeSlice(avail, slp, st, nap, now)
    BY <1>7 DEF TickWakes
  <2>2. InList(t, sleeping)
    BY <1>7 DEF TickWakes, FirstDue, InList
  <2>3. state[t] = "SLEEPING" /\ t # SchedulerTask /\ policy[t] \in Policies
    BY <1>2, <1>3, <2>2, TasksAssumption DEF ListsHoldStates, AllTasks
  <2>4. ListsHoldStates(avail, slp, blocked, terminated, st)
    BY <1>2, <1>3, <2>3, WakeSleeper
  <2>5. (\A u \in Tasks : st[u] = "ACTIVE" <=> u = running) /\ st[SchedulerTask] = "ACTIVE"
    BY <1>2, <1>4, <2>3 DEF AllTasks
  <2>6. st \in [AllTasks -> States]
    BY <1>2 DEF States, InvalidStates
  <2>7. avail \in [Policies -> Seq(Tasks)]
    BY <1>2, <2>3 DEF MakeAvailable
  <2>8. slp \in Seq(Tasks)
    BY <1>2, <1>3, RemoveTaskElements DEF ListsHoldStates
  <2>9. nap \in [AllTasks -> 0..(TimeModulus - 1)]
    <3>1. 0 \in 0..(TimeModulus - 1)
      BY NumbersAssumption
    <3>. QED
      BY <1>2, <3>1
  <2>10. SameTasks(st) /\ TerminatedMoves(st)
    <3>1. \A u \in Tasks : st[u] = (IF u = t THEN "AVAILABLE" ELSE state[u])
      BY <1>2 DEF AllTasks
    <3>. QED
      BY <1>5, <2>3, <3>1 DEF SameTasks, TerminatedMoves
  <2>. HIDE DEF now, avail, slp, st, nap
  <2>. QED
    BY <1>1, <1>5, <2>1, <2>4, <2>5, <2>6, <2>7, <2>8, <2>9, <2>10, ManageTimeSliceIInv
<1>. QED
  BY <1>6, <1>7 DEF Tick

-----------------------------------------------------------------------------
(* Every step.                                                              *)

\* Every step preserves the inductive invariant, and makes a task, dispatches one or
\* does neither.
LEMMA NextIInv ==
  ASSUME IInv, [Next]_vars
  PROVE  /\ IInv'
         /\ \/ \E t \in Tasks, p \in UsedPolicies : CreateTask(t, p)
            \/ Dispatches \/ Stays
<1>1. ASSUME NEW t \in Tasks, NEW p \in UsedPolicies, CreateTask(t, p) PROVE IInv'
  BY <1>1, CreateTaskIInv
<1>2. CASE IdleLoop
  BY <1>2, IdleLoopIInv
<1>3. ASSUME NEW ms \in SleepTimes, Sleep(ms) PROVE IInv' /\ Dispatches
  BY <1>3, SleepIInv
<1>4. CASE Block
  BY <1>4, BlockIInv
<1>5. CASE Terminate
  BY <1>5, TerminateIInv
<1>6. ASSUME NEW t \in Tasks, Unblock(t) PROVE IInv' /\ Stays
  BY <1>6, UnblockIInv
<1>7. CASE BlockInvalid \/ \E t \in Tasks : UnblockInvalid(t)
  BY <1>7, InvalidCallIInv
<1>8. CASE Tick
  BY <1>8, TickIInv
<1>9. CASE UNCHANGED vars
  <2>1. IInv'
    BY <1>9 DEF IInv, TypeOK, ListsHold, ListsHoldStates, OnlyRunningIsActive,
                vars, clockVars, listVars, taskVars
  <2>2. Stays
    BY <1>9 DEF Stays, OthersKeepSlice, TerminatedMoves, SameTasks, vars, listVars, taskVars
  <2>. QED
    BY <2>1, <2>2
<1>. QED
  BY <1>1, <1>2, <1>3, <1>4, <1>5, <1>6, <1>7, <1>8, <1>9 DEF Next

-----------------------------------------------------------------------------
(* The rest of what holds of every state, by the same three kinds of step.   *)

\* A task that terminates joins the terminated list, and one that is unblocked stops
\* being terminated when it leaves it.
LEMMA TerminatedListedNext ==
  ASSUME IInv, TerminatedListed, [Next]_vars
  PROVE  TerminatedListed'
<1>1. ASSUME NEW st, TerminatedMoves(st), NEW t \in Tasks, st[t] = "TERMINATED"
      PROVE  InList(t, terminated')
  <2>1. terminated \in Seq(Tasks) /\ IsInjective(terminated)
    BY DEF IInv, TypeOK, ListsHold, ListsHoldStates
  <2>2. CASE terminated' = terminated /\ state[t] = "TERMINATED"
    BY <2>2 DEF TerminatedListed
  <2>3. CASE /\ terminated' = Append(terminated, running) /\ running \in Tasks
             /\ state[t] = "TERMINATED" \/ t = running
    BY <2>1, <2>3, InListAppend DEF TerminatedListed
  <2>4. ASSUME NEW u \in Tasks, terminated' = RemoveTask(terminated, u),
               state[t] = "TERMINATED" /\ t # u
        PROVE  InList(t, terminated')
    BY <2>1, <2>4, RemoveTaskElements DEF TerminatedListed
  <2>. QED
    BY <1>1, <2>2, <2>3, <2>4 DEF TerminatedMoves
<1>2. ASSUME NEW t \in Tasks, NEW p \in UsedPolicies, CreateTask(t, p)
      PROVE  TerminatedListed'
  BY <1>2 DEF CreateTask, TerminatedListed, IInv, TypeOK, AllTasks
<1>3. CASE Dispatches
  <2>1. PICK avail \in [Policies -> Seq(Tasks)], st \in [AllTasks -> States] :
               Dispatch(avail, st)
    BY <1>3 DEF Dispatches
  <2>2. \A t \in Tasks : state'[t] = "TERMINATED" => st[t] = "TERMINATED"
    BY <2>1 DEF Dispatch, Schedule, AllTasks
  <2>. QED
    BY <1>1, <2>1, <2>2 DEF Dispatch, TerminatedListed
<1>4. CASE Stays
  BY <1>1, <1>4 DEF Stays, TerminatedListed
<1>. QED
  BY <1>2, <1>3, <1>4, NextIInv

\* Whoever leaves the processor does so with its slice filled up, and no other slice
\* is touched.
LEMMA FullSliceNext ==
  ASSUME IInv, WaitsWithFullSlice, [Next]_vars
  PROVE  WaitsWithFullSlice'
<1>1. ASSUME NEW t \in Tasks, NEW p \in UsedPolicies, CreateTask(t, p)
      PROVE  WaitsWithFullSlice'
  BY <1>1 DEF CreateTask, WaitsWithFullSlice, IInv, TypeOK, AllTasks
<1>2. CASE Dispatches
  <2>1. OthersKeepSlice /\ (running \in Tasks => time_slice'[running] = DEFAULT_TIME_SLICE)
    BY <1>2 DEF Dispatches, Dispatch
  <2>. QED
    BY <2>1 DEF OthersKeepSlice, WaitsWithFullSlice
<1>3. CASE Stays
  BY <1>3 DEF Stays, OthersKeepSlice, WaitsWithFullSlice
<1>. QED
  BY <1>1, <1>2, <1>3, NextIInv

\* PriorityInRange, and the priority of the tasks it is silent about: the two policies
\* without priorities never touch theirs.
PriorityFits ==
  \A t \in Tasks : state[t] # "UNBORN" =>
    priority[t] \in IF policy[t] <= 1 THEN 1..DEFAULT_PRIORITY ELSE {0}

\* A priority that fits is spent to one that fits: the decrement never wraps.
LEMMA SpendPriorityFits ==
  ASSUME NEW t, priority[t] \in 1..DEFAULT_PRIORITY, policy[t] <= 1
  PROVE  SpendPriority(t) \in 1..DEFAULT_PRIORITY
<1>1. priority[t] - 1 \in 0..255 /\ DEFAULT_PRIORITY \in 1..255
  BY NumbersAssumption
<1>2. \A n \in 0..255 : n % 256 = n
  OBVIOUS
<1>3. (priority[t] - 1) % 256 = priority[t] - 1
  BY <1>1, <1>2
<1>. QED
  BY <1>1, <1>3 DEF SpendPriority, ReqPriority

\* schedule() spends the priority of a task that has one.
LEMMA PriorityFitsNext ==
  ASSUME IInv, PriorityFits, [Next]_vars
  PROVE  PriorityFits'
<1>1. ASSUME NEW t \in Tasks, NEW p \in UsedPolicies, CreateTask(t, p)
      PROVE  PriorityFits'
  <2>1. /\ state' = [state EXCEPT ![t] = "AVAILABLE"]
        /\ policy' = [policy EXCEPT ![t] = p]
        /\ priority' = [priority EXCEPT ![t] = ReqPriority(p)]
    BY <1>1 DEF CreateTask
  <2>2. ReqPriority(p) \in IF p <= 1 THEN 1..DEFAULT_PRIORITY ELSE {0}
    BY NumbersAssumption DEF ReqPriority
  <2>3. /\ policy'[t] = p /\ priority'[t] = ReqPriority(p)
        /\ \A u \in Tasks : u # t => /\ state'[u] = state[u]
                                     /\ policy'[u] = policy[u]
                                     /\ priority'[u] = priority[u]
    BY <2>1 DEF IInv, TypeOK, AllTasks
  <2>. QED
    BY <2>2, <2>3 DEF PriorityFits
<1>2. CASE Dispatches
  <2>1. PICK avail \in [Policies -> Seq(Tasks)], st \in [AllTasks -> States] :
               Dispatch(avail, st)
    BY <1>2 DEF Dispatches
  <2>2. PICK t \in AllTasks :
          /\ Picks(t, avail)
          /\ priority' = IF t \in Tasks /\ policy[t] <= 1
                         THEN [priority EXCEPT ![t] = SpendPriority(t)]
                         ELSE priority
          /\ state' = [st EXCEPT ![t] = "ACTIVE"]
    BY <2>1 DEF Dispatch, Schedule
  <2>3. policy' = policy /\ SameTasks(st)
    BY <2>1 DEF Dispatch
  <2>4. t \in Tasks => st[t] = "AVAILABLE"
    <3>. DEFINE slp == sleeping' blk == blocked' trm == terminated'
    <3>1. /\ slp \in Seq(Tasks) /\ blk \in Seq(Tasks) /\ trm \in Seq(Tasks)
          /\ ListsHoldStates(avail, slp, blk, trm, st)
      BY <2>1 DEF Dispatch
    <3>. HIDE DEF slp, blk, trm
    <3>. QED
      BY <2>2, <3>1, PickedTaskIsReady
  <2>5. \A u \in Tasks : state'[u] # "UNBORN" => state[u] # "UNBORN"
    BY <2>2, <2>3, <2>4 DEF SameTasks, AllTasks
  <2>6. CASE t \in Tasks /\ policy[t] <= 1
    <3>1. SpendPriority(t) \in 1..DEFAULT_PRIORITY
      BY <2>3, <2>4, <2>6, SpendPriorityFits DEF PriorityFits, SameTasks
    <3>2. \A u \in Tasks : priority'[u] = IF u = t THEN SpendPriority(t) ELSE priority[u]
      BY <2>2, <2>6 DEF IInv, TypeOK, AllTasks
    <3>. QED
      BY <2>3, <2>5, <2>6, <3>1, <3>2 DEF PriorityFits
  <2>7. CASE ~(t \in Tasks /\ policy[t] <= 1)
    BY <2>2, <2>3, <2>5, <2>7 DEF PriorityFits
  <2>. QED
    BY <2>6, <2>7
<1>3. CASE Stays
  BY <1>3 DEF Stays, SameTasks, PriorityFits
<1>. QED
  BY <1>1, <1>2, <1>3, NextIInv

-----------------------------------------------------------------------------
(* What a step may never do.                                                *)

\* Whoever the walks of schedule() pick, everything ready that is left is no better.
LEMMA PicksTheBest ==
  ASSUME NEW avail \in [Policies -> Seq(Tasks)], NEW t \in AllTasks, Picks(t, avail),
         priority \in [AllTasks -> 0..255],
         \A u \in Tasks, p \in 2..3 : InList(u, avail[p]) => priority[u] = 0,
         \A p \in Policies : InList(t, avail[p]) => policy[t] = p
  PROVE  /\ t = SchedulerTask => \A p \in Policies : avail[p] = <<>>
         /\ t \in Tasks =>
              /\ \A p \in Policies : p < policy[t] => avail[p] = <<>>
              /\ \A u \in Tasks : InList(u, avail[policy[t]]) => priority[u] <= priority[t]
<1>. USE DEF Policies
<1>1. SchedulerTask \notin Tasks
  BY TasksAssumption
<1>2. ASSUME NEW p \in 0..1, avail[p] # <<>>, t = HighestPriorityTask(avail[p])
      PROVE  /\ t \in Tasks /\ policy[t] = p
             /\ \A u \in Tasks : InList(u, avail[p]) => priority[u] <= priority[t]
  <2>1. avail[p] \in Seq(Tasks)
    OBVIOUS
  <2>2. /\ t \in Tasks /\ InList(t, avail[p])
        /\ \A u \in Tasks : InList(u, avail[p]) => priority[u] <= priority[t]
    BY <1>2, <2>1, SearchFindsHighest
  <2>. QED
    BY <2>2
<1>3. CASE avail[0] # <<>> /\ t = HighestPriorityTask(avail[0])
  BY <1>1, <1>2, <1>3
<1>4. CASE avail[0] = <<>> /\ avail[1] # <<>> /\ t = HighestPriorityTask(avail[1])
  BY <1>1, <1>2, <1>4
<1>5. ASSUME NEW p \in 2..3, \A q \in Policies : q < p => avail[q] = <<>>,
             avail[p] # <<>>, t = avail[p][1]
      PROVE  /\ t \in Tasks /\ policy[t] = p
             /\ \A u \in Tasks : InList(u, avail[p]) => priority[u] <= priority[t]
  <2>1. t \in Tasks /\ InList(t, avail[p])
    BY <1>5 DEF InList
  <2>2. priority[t] = 0 /\ \A u \in Tasks : InList(u, avail[p]) => priority[u] = 0
    BY <2>1
  <2>. QED
    BY <2>1, <2>2
<1>6. CASE avail[0] = <<>> /\ avail[1] = <<>> /\ avail[2] # <<>> /\ t = avail[2][1]
  BY <1>1, <1>5, <1>6
<1>7. CASE (\A p \in 0..2 : avail[p] = <<>>) /\ avail[3] # <<>> /\ t = avail[3][1]
  BY <1>1, <1>5, <1>7
<1>8. CASE (\A p \in Policies : avail[p] = <<>>) /\ t = SchedulerTask
  BY <1>1, <1>8
<1>. QED
  BY <1>3, <1>4, <1>6, <1>7, <1>8 DEF Picks

\* The step that hands the processor over is a dispatch, and the task it picks left its
\* list as PicksTheBest found it.
LEMMA BestTaskStep ==
  ASSUME IInv, PriorityFits, [Next]_vars, running' # running
  PROVE  /\ running' = SchedulerTask => \A p \in Policies : available'[p] = <<>>
         /\ running' \in Tasks =>
              /\ \A p \in Policies : p < policy[running'] => available'[p] = <<>>
              /\ \A t \in Tasks : InList(t, available'[policy[running']]) =>
                   priority[t] <= priority[running']
<1>1. Dispatches
  BY NextIInv DEF CreateTask, Stays
<1>2. PICK avail \in [Policies -> Seq(Tasks)], st \in [AllTasks -> States] :
             Dispatch(avail, st)
  BY <1>1 DEF Dispatches
<1>3. PICK t \in AllTasks :
        /\ Picks(t, avail)
        /\ running' = t
        /\ available' = IF t = SchedulerTask THEN avail
                        ELSE [avail EXCEPT ![policy[t]] = RemoveTask(@, t)]
  BY <1>2 DEF Dispatch, Schedule
<1>4. ListsHoldStates(avail, sleeping', blocked', terminated', st) /\ SameTasks(st)
  BY <1>2 DEF Dispatch
<1>5. SchedulerTask \notin Tasks /\ policy[t] \in Policies
  BY TasksAssumption DEF IInv, TypeOK
<1>6. \A u \in Tasks, p \in 2..3 : InList(u, avail[p]) => priority[u] = 0
  <2>1. ASSUME NEW u \in Tasks, NEW p \in 2..3, InList(u, avail[p])
        PROVE  state[u] # "UNBORN" /\ policy[u] = p
    BY <1>4, <2>1 DEF ListsHoldStates, SameTasks, Policies
  <2>2. \A p \in 2..3 : ~(p <= 1)
    OBVIOUS
  <2>. QED
    BY <2>1, <2>2 DEF PriorityFits
<1>7. \A p \in Policies : InList(t, avail[p]) => policy[t] = p
  <2>1. CASE t \in Tasks
    BY <1>4, <2>1 DEF ListsHoldStates
  <2>2. CASE t \notin Tasks
    BY <2>2 DEF InList
  <2>. QED
    BY <2>1, <2>2
<1>8. /\ t = SchedulerTask => \A p \in Policies : avail[p] = <<>>
      /\ t \in Tasks =>
           /\ \A p \in Policies : p < policy[t] => avail[p] = <<>>
           /\ \A u \in Tasks : InList(u, avail[policy[t]]) => priority[u] <= priority[t]
  BY <1>3, <1>6, <1>7, PicksTheBest DEF IInv, TypeOK
<1>9. CASE t = SchedulerTask
  BY <1>3, <1>5, <1>8, <1>9
<1>10. CASE t \in Tasks
  <2>1. \A p \in Policies : p # policy[t] => available'[p] = avail[p]
    BY <1>3, <1>5, <1>10
  <2>2. available'[policy[t]] = RemoveTask(avail[policy[t]], t)
    BY <1>3, <1>5, <1>10
  <2>3. \A u : InList(u, available'[policy[t]]) => InList(u, avail[policy[t]])
    BY <1>4, <1>5, <2>2, RemoveTaskElements DEF ListsHoldStates
  <2>4. \A p \in Policies : p < policy[t] => p # policy[t]
    BY DEF Policies
  <2>. QED
    BY <1>3, <1>5, <1>8, <1>10, <2>1, <2>3, <2>4
<1>. QED
  BY <1>9, <1>10 DEF AllTasks

\* A tick that leaves a due sleeper asleep has woken one nearer the head.
LEMMA DueSleeperStep ==
  ASSUME IInv, [Next]_vars, time_counter' # time_counter,
         NEW i \in DOMAIN sleeping,
         Due(sleeping[i], time_counter'), state'[sleeping[i]] = "SLEEPING"
  PROVE  \E j \in 1..(i - 1) : sleeping'[j] = sleeping[i]
<1>. DEFINE now == (time_counter + 1) % TimeModulus
            t == sleeping[i]
<1>1. sleeping \in Seq(Tasks) /\ IsInjective(sleeping) /\ t \in Tasks /\ i \in 1..Len(sleeping)
  BY DEF IInv, TypeOK, ListsHold, ListsHoldStates
<1>2. Tick
  BY DEF Next, CreateTask, IdleLoop, Sleep, Block, BlockInvalid, Terminate, Unblock,
         UnblockInvalid, vars, clockVars
<1>3. time_counter' = now
  BY <1>2 DEF Tick, TickNoneDue, TickWakes
<1>. HIDE DEF now
<1>4. PICK k \in 1..Len(sleeping) :
        Due(sleeping[k], now) /\ \A j \in 1..(k - 1) : ~Due(sleeping[j], now)
  <2>. DEFINE N == {j \in 1..Len(sleeping) : Due(sleeping[j], now)}
  <2>1. N \subseteq Nat /\ i \in N
    BY <1>1, <1>3
  <2>2. PICK k \in N : \A j \in N : k <= j
    BY <2>1, LeastElement
  <2>. QED
    BY <2>2
<1>5. PICK u \in Tasks : TickWakes(u)
  <2>1. FirstDue(sleeping[k], now) /\ sleeping[k] \in Tasks
    BY <1>1, <1>4 DEF FirstDue
  <2>. QED
    BY <1>2, <2>1 DEF Tick, TickNoneDue, now
<1>6. /\ FirstDue(u, now)
      /\ ManageTimeSlice(MakeAvailable(available, u), RemoveTask(sleeping, u),
                         [state EXCEPT ![u] = "AVAILABLE"], [naptime EXCEPT ![u] = 0], now)
  BY <1>5 DEF TickWakes, now
<1>7. PICK m \in 1..Len(sleeping) :
        sleeping[m] = u /\ \A j \in 1..(m - 1) : ~Due(sleeping[j], now)
  BY <1>1, <1>6 DEF FirstDue
<1>8. state[u] = "SLEEPING" /\ u # running /\ u \in AllTasks
  <2>1. InList(u, sleeping)
    BY <1>1, <1>7 DEF InList
  <2>. QED
    BY <2>1 DEF IInv, ListsHold, ListsHoldStates, OnlyRunningIsActive, AllTasks
<1>. DEFINE slp == RemoveTask(sleeping, u)
<1>9. /\ running \in Tasks \/ sleeping' = slp
      /\ sleeping' = slp \/ sleeping' = Append(slp, running)
      /\ state'[u] # "SLEEPING"
  <2>. DEFINE st == [state EXCEPT ![u] = "AVAILABLE"]
  <2>1. st[u] = "AVAILABLE" /\ [st EXCEPT ![running] = "SLEEPING"][u] = "AVAILABLE"
    BY <1>8 DEF IInv, TypeOK
  <2>2. running = SchedulerTask \/ running \in Tasks
    BY DEF IInv, TypeOK, AllTasks
  <2>3. CASE sleeping' = slp /\ state' = st
    BY <2>1, <2>3
  <2>4. CASE /\ running # SchedulerTask /\ sleeping' = Append(slp, running)
             /\ Schedule(MakeAvailable(available, u), [st EXCEPT ![running] = "SLEEPING"])
    <3>. DEFINE st2 == [st EXCEPT ![running] = "SLEEPING"]
    <3>1. PICK x \in AllTasks : state' = [st2 EXCEPT ![x] = "ACTIVE"]
      BY <2>4 DEF Schedule
    <3>2. state'[u] = IF x = u THEN "ACTIVE" ELSE st2[u]
      BY <1>8, <3>1 DEF IInv, TypeOK
    <3>. QED
      BY <2>1, <2>2, <2>4, <3>2
  <2>. QED
    BY <1>6, <2>3, <2>4 DEF ManageTimeSlice
<1>10. m < i
  <2>1. m # i
    BY <1>7, <1>9
  <2>2. ~(i < m)
    BY <1>1, <1>3, <1>7
  <2>. QED
    BY <1>1, <2>1, <2>2
<1>11. /\ slp \in Seq(Tasks) /\ Len(slp) = Len(sleeping) - 1 /\ slp[i - 1] = t
  <2>1. slp = RemoveAt(sleeping, m)
    BY <1>1, <1>7, RemoveTaskAt
  <2>2. /\ RemoveAt(sleeping, m) \in Seq(Tasks)
        /\ Len(RemoveAt(sleeping, m)) = Len(sleeping) - 1
        /\ \A j \in 1..(Len(sleeping) - 1) :
             RemoveAt(sleeping, m)[j] = IF j < m THEN sleeping[j] ELSE sleeping[j + 1]
    BY <1>1, RemoveAtElements
  <2>3. i - 1 \in 1..(Len(sleeping) - 1) /\ ~(i - 1 < m) /\ (i - 1) + 1 = i
    BY <1>1, <1>10
  <2>. HIDE DEF slp
  <2>. QED
    BY <2>1, <2>2, <2>3
<1>12. i - 1 \in 1..(i - 1) /\ i - 1 \in 1..Len(slp)
  BY <1>1, <1>10, <1>11
<1>. HIDE DEF slp, t
<1>13. sleeping'[i - 1] = t
  BY <1>9, <1>11, <1>12
<1>. QED
  BY <1>12, <1>13 DEF t

-----------------------------------------------------------------------------
(* The theorems.                                                            *)

\* The inductive invariant holds of every reachable state.
THEOREM InductiveInvariant == Spec => []IInv
<1>1. Init => IInv
  BY InitIInv
<1>2. IInv /\ [Next]_vars => IInv'
  BY NextIInv
<1>. QED
  BY <1>1, <1>2, PTL DEF Spec

\* Every variable of the scheduler keeps its type, whatever the tasks call: in
\* particular the running task always has time left in its slice, so that the
\* unsigned counter of manage_time_slice never passes 0.
THEOREM TypeCorrect == Spec => []TypeOK
<1>1. IInv => TypeOK
  BY DEF IInv
<1>. QED
  BY <1>1, InductiveInvariant, PTL

\* task_block, task_unblock, schedule and the tick never lose a task, never queue
\* it twice and never leave it in a list its state does not name.
THEOREM ListsCorrect == Spec => []EachTaskInItsList
<1>1. Init => TerminatedListed
  BY DEF Init, TerminatedListed, AllTasks
<1>2. IInv /\ TerminatedListed /\ [Next]_vars => TerminatedListed'
  BY TerminatedListedNext
<1>3. IInv /\ TerminatedListed => EachTaskInItsList
  BY TwoParts DEF IInv
<1>. QED
  BY <1>1, <1>2, <1>3, InductiveInvariant, PTL DEF Spec

\* However a task leaves the processor, by sleeping, blocking, terminating or running
\* out of time, it will come back with a full slice.
THEOREM SlicesFull == Spec => []WaitsWithFullSlice
<1>1. Init => WaitsWithFullSlice
  BY DEF Init, WaitsWithFullSlice, AllTasks
<1>2. IInv /\ WaitsWithFullSlice /\ [Next]_vars => WaitsWithFullSlice'
  BY FullSliceNext
<1>. QED
  BY <1>1, <1>2, InductiveInvariant, PTL DEF Spec

\* The priorities fit at all times.
LEMMA PrioritiesFit == Spec => []PriorityFits
<1>1. Init => PriorityFits
  <2>1. SchedulerTask \notin Tasks
    BY TasksAssumption
  <2>. QED
    BY <2>1 DEF Init, PriorityFits, AllTasks
<1>2. IInv /\ PriorityFits /\ [Next]_vars => PriorityFits'
  BY PriorityFitsNext
<1>. QED
  BY <1>1, <1>2, InductiveInvariant, PTL DEF Spec

\* The decrement of the uint8_t priority in schedule_priority_task never passes 0, and
\* no priority ever exceeds the one the task was made with.
THEOREM PrioritiesInRange == Spec => []PriorityInRange
<1>1. PriorityFits => PriorityInRange
  BY DEF PriorityFits, PriorityInRange
<1>. QED
  BY <1>1, PrioritiesFit, PTL

\* The running task is the only active one, next to the idle task.
THEOREM OneActiveTask == Spec => []OnlyRunningIsActive
<1>1. IInv => OnlyRunningIsActive
  BY DEF IInv
<1>. QED
  BY <1>1, InductiveInvariant, PTL

\* Strict priority between the policies, and between the tasks of the two that have
\* priorities: a dispatch never passes over a better task.
THEOREM DispatchesBest == Spec => BestTaskDispatched
<1>1. IInv /\ PriorityFits /\ [Next]_vars =>
        [running' # running =>
           /\ running' = SchedulerTask => \A p \in Policies : available'[p] = <<>>
           /\ running' \in Tasks =>
                /\ \A p \in Policies : p < policy[running'] => available'[p] = <<>>
                /\ \A t \in Tasks : InList(t, available'[policy[running']]) =>
                     priority[t] <= priority[running']]_vars
  BY BestTaskStep
<1>. QED
  BY <1>1, InductiveInvariant, PrioritiesFit, PTL DEF Spec, BestTaskDispatched

\* manage_sleeping_tasks wakes one task at a tick, but no due sleeper waits longer than
\* the ticks it takes to wake those in front of it.
THEOREM SleepersAdvance == Spec => DueSleeperAdvances
<1>1. IInv /\ [Next]_vars =>
        [time_counter' # time_counter =>
           \A i \in DOMAIN sleeping :
             LET t == sleeping[i]
             IN  Due(t, time_counter') /\ state'[t] = "SLEEPING" =>
                   \E j \in 1..(i - 1) : sleeping'[j] = t]_vars
  BY DueSleeperStep
<1>. QED
  BY <1>1, InductiveInvariant, PTL DEF Spec, DueSleeperAdvances
=============================================================================
