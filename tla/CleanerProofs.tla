--------------------------- MODULE CleanerProofs ---------------------------
(***************************************************************************)
(* Theorems about TaskCleaner.  The tasks the cleaner runs among keep the      *)
(* inductive invariant of SchedulerProofs; what is added is where its walk     *)
(* stands in the list that grows while it walks.                             *)
(***************************************************************************)
EXTENDS TaskCleaner, SchedulerProofs

-----------------------------------------------------------------------------
(* The inductive invariant.                                                 *)

\* The tasks of the terminated list in front of place k are freed, the others not.
FreedBefore(k) == \A i \in DOMAIN terminated : terminated[i] \in freed <=> i < k

\* Before the walk nothing in the list is freed; while it lasts, all that is in front
\* of the cursor, and the cursor itself between task_cleanup and the next statement.
WalkStands ==
  /\ step \in {"head", "block"} => FreedBefore(1)
  /\ step = "cleanup" =>
       \E k \in DOMAIN terminated : terminated[k] = cursor /\ FreedBefore(k)
  /\ step = "advance" =>
       \E k \in DOMAIN terminated : terminated[k] = cursor /\ FreedBefore(k + 1)

CleanerInv == IInv /\ CleanerTypeOK /\ FreesOnlyTerminated /\ WalkStands

\* The state after boot satisfies it.
LEMMA InitCleanerInv == CleanerInit => CleanerInv
<1>. SUFFICES ASSUME CleanerInit PROVE CleanerInv
  OBVIOUS
<1>1. IInv
  BY InitIInv DEF CleanerInit
<1>. QED
  BY <1>1 DEF CleanerInit, CleanerInv, CleanerTypeOK, FreesOnlyTerminated, WalkStands,
              FreedBefore, Steps, Init

-----------------------------------------------------------------------------
(* The steps of the other tasks and of the clock.                           *)

\* They leave the terminated list alone, or add to its end the running task, which is
\* not freed.
LEMMA OthersAppend ==
  ASSUME CleanerInv, Others
  PROVE  \/ terminated' = terminated
         \/ terminated' = Append(terminated, running) /\ running \in Tasks \ freed
<1>1. [Next]_vars /\ \A t \in Tasks : state[t] = "TERMINATED" => state'[t] = "TERMINATED"
  BY DEF Others, Next
<1>2. ASSUME NEW st, TerminatedMoves(st),
             \A t \in Tasks : state'[t] = "TERMINATED" => st[t] = "TERMINATED"
      PROVE  \/ terminated' = terminated
             \/ terminated' = Append(terminated, running) /\ running \in Tasks
  BY <1>1, <1>2 DEF TerminatedMoves
<1>3. \/ terminated' = terminated
      \/ terminated' = Append(terminated, running) /\ running \in Tasks
  <2>1. CASE \E t \in Tasks, p \in UsedPolicies : CreateTask(t, p)
    BY <2>1 DEF CreateTask
  <2>2. CASE Dispatches
    <3>1. PICK avail \in [Policies -> Seq(Tasks)], st \in [AllTasks -> States] :
                 Dispatch(avail, st)
      BY <2>2 DEF Dispatches
    <3>2. \A t \in Tasks : state'[t] = "TERMINATED" => st[t] = "TERMINATED"
      BY <3>1 DEF Dispatch, Schedule, AllTasks
    <3>. QED
      BY <1>2, <3>1, <3>2 DEF Dispatch
  <2>3. CASE Stays
    BY <1>2, <2>3 DEF Stays
  <2>. QED
    BY <1>1, <2>1, <2>2, <2>3, NextIInv DEF CleanerInv
<1>4. running \in Tasks => running \notin freed
  BY DEF CleanerInv, IInv, OnlyRunningIsActive, FreesOnlyTerminated
<1>. QED
  BY <1>3, <1>4

\* The walk stands as it did when the list grows at its end.
LEMMA OthersCleanerInv ==
  ASSUME CleanerInv, Others
  PROVE  CleanerInv'
<1>. USE DEF CleanerInv
<1>1. IInv'
  BY NextIInv DEF Others, Next
<1>2. UNCHANGED <<step, cursor, freed>>
  BY DEF Others, cleanerVars
<1>3. CleanerTypeOK' /\ FreesOnlyTerminated'
  BY <1>2 DEF Others, CleanerTypeOK, FreesOnlyTerminated
<1>4. terminated \in Seq(Tasks)
  BY DEF IInv, TypeOK
<1>5. /\ \A k \in DOMAIN terminated : k \in DOMAIN terminated' /\ terminated'[k] = terminated[k]
      /\ \A k \in DOMAIN terminated' \ DOMAIN terminated :
           k > Len(terminated) /\ terminated'[k] \notin freed
  <2>1. CASE terminated' = terminated
    BY <1>4, <2>1
  <2>2. CASE terminated' = Append(terminated, running) /\ running \in Tasks \ freed
    BY <1>4, <2>2
  <2>. QED
    BY <2>1, <2>2, OthersAppend
<1>6. ASSUME NEW k \in 1..(Len(terminated) + 1), FreedBefore(k)
      PROVE  FreedBefore(k)'
  <2>1. SUFFICES ASSUME NEW i \in DOMAIN terminated'
                 PROVE  terminated'[i] \in freed <=> i < k
    BY <1>2 DEF FreedBefore
  <2>2. CASE i \in DOMAIN terminated
    BY <1>5, <1>6, <2>2 DEF FreedBefore
  <2>3. CASE i \notin DOMAIN terminated
    BY <1>4, <1>5, <2>3
  <2>. QED
    BY <2>2, <2>3
<1>7. 1 \in 1..(Len(terminated) + 1)
      /\ \A k \in DOMAIN terminated : {k, k + 1} \subseteq 1..(Len(terminated) + 1)
  BY <1>4
<1>8. WalkStands'
  BY <1>2, <1>5, <1>6, <1>7 DEF WalkStands
<1>. QED
  BY <1>1, <1>3, <1>8

-----------------------------------------------------------------------------
(* The statements of task_cleaner.                                          *)

\* Those that touch none of the scheduler's variables keep its invariant.
LEMMA WalkKeepsIInv ==
  ASSUME IInv, UNCHANGED vars
  PROVE  IInv' /\ UNCHANGED <<state, terminated>>
BY NextIInv DEF vars, listVars, taskVars

\* The walk starts at the head, with the whole list allocated.
LEMMA HeadCleanerInv ==
  ASSUME CleanerInv, CleanerHead
  PROVE  CleanerInv'
<1>. USE DEF CleanerInv
<1>1. IInv' /\ UNCHANGED <<state, terminated, freed>>
  BY WalkKeepsIInv DEF CleanerHead
<1>2. terminated \in Seq(Tasks) /\ NoTask \notin Tasks
  BY NoTaskAssumption DEF IInv, TypeOK, AllTasks
<1>3. FreedBefore(1)
  BY DEF CleanerHead, WalkStands
<1>4. CASE terminated = <<>>
  <2>1. cursor' = NoTask /\ step' = "reset"
    BY <1>4 DEF CleanerHead, GoOnWith
  <2>. QED
    BY <1>1, <2>1 DEF CleanerTypeOK, FreesOnlyTerminated, WalkStands, Steps
<1>5. CASE terminated # <<>>
  <2>1. 1 \in DOMAIN terminated /\ terminated[1] \in Tasks
    BY <1>2, <1>5
  <2>2. cursor' = terminated[1] /\ step' = "cleanup"
    BY <1>2, <1>5, <2>1 DEF CleanerHead, GoOnWith
  <2>. QED
    BY <1>1, <1>3, <2>1, <2>2
    DEF CleanerTypeOK, FreesOnlyTerminated, WalkStands, FreedBefore, Steps
<1>. QED
  BY <1>4, <1>5

\* What is freed is the one task the walk stands at.
LEMMA CleanupCleanerInv ==
  ASSUME CleanerInv, CleanerCleanup
  PROVE  CleanerInv'
<1>. USE DEF CleanerInv
<1>1. IInv' /\ UNCHANGED <<state, terminated, cursor>>
  BY WalkKeepsIInv DEF CleanerCleanup
<1>2. freed' = freed \cup {cursor} /\ step' = "advance" /\ cursor \in Tasks
  BY DEF CleanerCleanup, CleanerTypeOK
<1>3. PICK k \in DOMAIN terminated : terminated[k] = cursor /\ FreedBefore(k)
  BY DEF CleanerCleanup, WalkStands
<1>4. terminated \in Seq(Tasks) /\ IsInjective(terminated) /\ state[cursor] = "TERMINATED"
  <2>1. InList(cursor, terminated)
    BY <1>3 DEF InList
  <2>. QED
    BY <1>2, <2>1 DEF IInv, TypeOK, ListsHold, ListsHoldStates
<1>5. CleanerTypeOK' /\ FreesOnlyTerminated'
  BY <1>1, <1>2, <1>4 DEF CleanerTypeOK, FreesOnlyTerminated, Steps
<1>6. \A i \in DOMAIN terminated : terminated[i] \in freed' <=> i < k + 1
  <2>1. \A i \in DOMAIN terminated : terminated[i] = cursor <=> i = k
    BY <1>3, <1>4 DEF IsInjective
  <2>2. \A i \in DOMAIN terminated : i < k + 1 <=> i < k \/ i = k
    BY <1>4
  <2>. QED
    BY <1>2, <1>3, <2>1, <2>2 DEF FreedBefore
<1>7. WalkStands'
  BY <1>1, <1>2, <1>3, <1>6 DEF WalkStands, FreedBefore
<1>. QED
  BY <1>1, <1>5, <1>7

\* The flink of the freed task leads to the first one that is still allocated.
LEMMA AdvanceCleanerInv ==
  ASSUME CleanerInv, CleanerAdvance
  PROVE  CleanerInv'
<1>. USE DEF CleanerInv
<1>1. IInv' /\ UNCHANGED <<state, terminated, freed>>
  BY WalkKeepsIInv DEF CleanerAdvance
<1>2. PICK k \in DOMAIN terminated : terminated[k] = cursor /\ FreedBefore(k + 1)
  BY DEF CleanerAdvance, WalkStands
<1>3. /\ terminated \in Seq(Tasks) /\ IsInjective(terminated)
      /\ NoTask \notin Tasks /\ k \in 1..Len(terminated)
  <2>1. terminated \in Seq(Tasks)
    BY DEF IInv, TypeOK
  <2>2. IsInjective(terminated)
    BY DEF IInv, ListsHold, ListsHoldStates
  <2>3. NoTask \notin Tasks
    BY NoTaskAssumption DEF AllTasks
  <2>. QED
    BY <2>1, <2>2, <2>3
<1>4. FirstIndex(cursor, terminated) = k
  BY <1>2, <1>3, FirstIndexAt
<1>5. CASE k < Len(terminated)
  <2>1. Flink(cursor) = terminated[k + 1] /\ k + 1 \in DOMAIN terminated
    BY <1>3, <1>4, <1>5 DEF Flink
  <2>2. terminated[k + 1] \in Tasks
    BY <1>3, <2>1
  <2>3. cursor' = terminated[k + 1] /\ step' = "cleanup"
    BY <1>3, <2>1, <2>2 DEF CleanerAdvance, GoOnWith
  <2>. QED
    BY <1>1, <1>2, <2>1, <2>2, <2>3
    DEF CleanerTypeOK, FreesOnlyTerminated, WalkStands, FreedBefore, Steps
<1>6. CASE ~(k < Len(terminated))
  <2>1. cursor' = NoTask /\ step' = "reset"
    BY <1>4, <1>6 DEF Flink, CleanerAdvance, GoOnWith
  <2>. QED
    BY <1>1, <2>1 DEF CleanerTypeOK, FreesOnlyTerminated, WalkStands, Steps
<1>. QED
  BY <1>5, <1>6

\* The emptied list holds nothing that is freed, nor anything else.
LEMMA ResetCleanerInv ==
  ASSUME CleanerInv, CleanerReset
  PROVE  CleanerInv'
<1>. USE DEF CleanerInv
<1>1. /\ terminated' = <<>> /\ step' = "block"
      /\ UNCHANGED <<running, looping, allow_ts, clockVars, taskVars>>
      /\ UNCHANGED <<available, sleeping, blocked, cursor, freed>>
  BY DEF CleanerReset
<1>2. TypeOK'
  BY <1>1 DEF IInv, TypeOK, clockVars, taskVars
<1>3. ListsHold' /\ OnlyRunningIsActive'
  BY <1>1, EmptyList DEF IInv, ListsHold, ListsHoldStates, OnlyRunningIsActive, taskVars
<1>. QED
  BY <1>1, <1>2, <1>3
  DEF IInv, CleanerTypeOK, FreesOnlyTerminated, WalkStands, FreedBefore, Steps, taskVars

\* The cleaner blocks; whoever is dispatched had not terminated.
LEMMA BlockCleanerInv ==
  ASSUME CleanerInv, CleanerBlock
  PROVE  CleanerInv'
<1>. USE DEF CleanerInv
<1>1. IInv' /\ terminated' = terminated /\ step' = "head" /\ UNCHANGED <<cursor, freed>>
  BY BlockIInv DEF CleanerBlock, Block
<1>2. PICK t \in AllTasks :
        /\ Picks(t, available)
        /\ state' = [[state EXCEPT ![running] = "BLOCKED"] EXCEPT ![t] = "ACTIVE"]
  BY DEF CleanerBlock, Block, Schedule
<1>3. t \in Tasks => state[t] = "AVAILABLE"
  BY <1>2, PickedTaskIsReady DEF IInv, TypeOK, ListsHold
<1>4. running \in Tasks /\ state[running] = "ACTIVE"
  BY DEF CleanerBlock, Block, IInv, OnlyRunningIsActive
<1>5. SchedulerTask \notin Tasks
  BY TasksAssumption
<1>6. \A u \in Tasks : state[u] = "TERMINATED" => state'[u] = "TERMINATED"
  BY <1>2, <1>3, <1>4, <1>5 DEF IInv, TypeOK, AllTasks
<1>. QED
  BY <1>1, <1>6
  DEF CleanerBlock, CleanerTypeOK, FreesOnlyTerminated, WalkStands, FreedBefore, Steps

-----------------------------------------------------------------------------
(* The theorems.                                                            *)

\* The inductive invariant holds of every reachable state.
THEOREM CleanerInvariant == CleanerSpec => []CleanerInv
<1>1. CleanerInit => CleanerInv
  BY InitCleanerInv
<1>2. ASSUME CleanerInv, [CleanerNext]_allVars PROVE CleanerInv'
  <2>1. CASE CleanerStep
    BY <1>2, <2>1, HeadCleanerInv, CleanupCleanerInv, AdvanceCleanerInv, ResetCleanerInv,
       BlockCleanerInv DEF CleanerStep
  <2>2. CASE Others
    BY <1>2, <2>2, OthersCleanerInv
  <2>3. CASE UNCHANGED allVars
    <3>1. UNCHANGED vars /\ UNCHANGED <<step, cursor, freed>>
      BY <2>3 DEF allVars, cleanerVars
    <3>2. IInv' /\ UNCHANGED <<state, terminated>>
      BY <1>2, <3>1, WalkKeepsIInv DEF CleanerInv
    <3>3. CleanerTypeOK' /\ FreesOnlyTerminated' /\ WalkStands'
      BY <1>2, <3>1, <3>2
      DEF CleanerInv, CleanerTypeOK, FreesOnlyTerminated, WalkStands, FreedBefore
    <3>. QED
      BY <3>2, <3>3 DEF CleanerInv
  <2>. QED
    BY <1>2, <2>1, <2>2, <2>3 DEF CleanerNext
<1>. QED
  BY <1>1, <1>2, PTL DEF CleanerSpec

\* The cleaner's cursor is a control block whenever it is passed to task_cleanup or
\* read through.
THEOREM CleanerTypeCorrect == CleanerSpec => []CleanerTypeOK
<1>1. CleanerInv => CleanerTypeOK
  BY DEF CleanerInv
<1>. QED
  BY <1>1, CleanerInvariant, PTL

\* task_cleanup is never called on a task that could still run.
THEOREM FreesTerminated == CleanerSpec => []FreesOnlyTerminated
<1>1. CleanerInv => FreesOnlyTerminated
  BY DEF CleanerInv
<1>. QED
  BY <1>1, CleanerInvariant, PTL

\* task_cleanup is never called twice on a task, however many tasks terminate while the
\* cleaner, which enters no critical section, walks the list.
THEOREM WalksInOrder == CleanerSpec => []WalkInOrder
<1>1. ASSUME CleanerInv PROVE WalkInOrder
  <2>1. terminated \in Seq(Tasks) /\ IsInjective(terminated)
    BY <1>1 DEF CleanerInv, IInv, TypeOK, ListsHold, ListsHoldStates
  <2>2. ASSUME NEW k \in DOMAIN terminated, terminated[k] = cursor,
               FreedBefore(k) \/ FreedBefore(k + 1)
        PROVE  /\ InList(cursor, terminated)
               /\ \A i \in 1..(FirstIndex(cursor, terminated) - 1) : terminated[i] \in freed
    <3>1. k \in 1..Len(terminated)
      BY <2>1
    <3>2. FirstIndex(cursor, terminated) = k /\ InList(cursor, terminated)
      BY <2>1, <2>2, <3>1, FirstIndexAt
    <3>. QED
      BY <2>1, <2>2, <3>1, <3>2 DEF FreedBefore
  <2>3. ASSUME NEW k \in DOMAIN terminated, terminated[k] = cursor, FreedBefore(k)
        PROVE  cursor \notin freed
    BY <2>1, <2>3 DEF FreedBefore
  <2>. QED
    BY <1>1, <2>2, <2>3 DEF CleanerInv, WalkStands, WalkInOrder
<1>. QED
  BY <1>1, CleanerInvariant, PTL
=============================================================================
