-------------------------- MODULE PreemptionProofs --------------------------
(***************************************************************************)
(* Theorems about Preemption, for any set of tasks and any number of context   *)
(* switches.  They rest on no property of the lists: the counter, the flag and *)
(* next_task stay right even where the lists do not.                          *)
(***************************************************************************)
EXTENDS Preemption, FiniteSetTheorems, TLAPS

-----------------------------------------------------------------------------
(* The inductive invariant.                                                 *)

\* The tasks that have raised the counter, each once.
InSection == {t \in Tasks : at[t] \in Raised}

\* The statements that come after schedule() has made a choice.
Chosen == {"run", "run_disable", "activate", "switch"}

\* A task that was switched out by a tick is not in its own code when it runs again:
\* without this a second tick could add it twice to inTick, and count it once.
CountedOnce == running \in inOwnCode => running \notin inTick

ContextOK ==
  /\ switches \in Nat
  /\ at \in [AllTasks -> Statements]
  /\ inTick \subseteq Tasks /\ IsFiniteSet(inTick)
  /\ inOwnCode \subseteq Tasks
  /\ IsFiniteSet(InSection)

PreemptionInv ==
  /\ ContextOK
  /\ CountedOnce
  /\ DisableLeaksPerSwitch
  /\ SectionsInterruptible
  /\ NoStaleChoice

\* From the first switch on the counter is positive, whoever is in a section or a tick.
LEMMA CounterPositive ==
  ASSUME ContextOK, DisableLeaksPerSwitch
  PROVE  /\ irq_disable_counter \in Nat
         /\ irq_disable_counter = switches + Cardinality(InSection) + Cardinality(inTick)
         /\ Cardinality(InSection) \in Nat /\ Cardinality(inTick) \in Nat
         /\ switches > 0 => irq_disable_counter > 0
<1>1. Cardinality(InSection) \in Nat /\ Cardinality(inTick) \in Nat
  BY FS_CardinalityType DEF ContextOK
<1>2. irq_disable_counter = switches + Cardinality(InSection) + Cardinality(inTick)
  BY DEF DisableLeaksPerSwitch, InSection, Raised
<1>. QED
  BY <1>1, <1>2 DEF ContextOK

\* The state after boot satisfies the invariant.
LEMMA InitPreemptionInv == Init => PreemptionInv
<1>. SUFFICES ASSUME Init PROVE PreemptionInv
  OBVIOUS
<1>1. InSection = {}
  BY DEF Init, InSection, Raised, AllTasks
<1>2. IsFiniteSet({}) /\ Cardinality({}) = 0
  BY FS_EmptySet
<1>3. ContextOK
  BY <1>1, <1>2 DEF Init, ContextOK, Statements
<1>4. DisableLeaksPerSwitch
  BY <1>1, <1>2 DEF Init, DisableLeaksPerSwitch, InSection, Raised
<1>. QED
  BY <1>3, <1>4 DEF Init, PreemptionInv, CountedOnce, SectionsInterruptible, NoStaleChoice

-----------------------------------------------------------------------------
(* The statements of sleep().                                               *)

\* A statement moves the running task, and no other.
LEMMA StepMoves ==
  ASSUME ContextOK, NEW from, NEW to \in Statements, Step(from, to)
  PROVE  /\ running \in Tasks /\ running \notin inTick /\ at[running] = from
         /\ at' \in [AllTasks -> Statements] /\ at'[running] = to
         /\ \A t \in Tasks : t # running => at'[t] = at[t]
BY DEF ContextOK, Step, AllTasks

\* Leaving or keeping a section, entering one, and what stays the same.
LEMMA SectionMoves ==
  ASSUME ContextOK, NEW from, NEW to \in Statements, Step(from, to)
  PROVE  /\ (from \in Raised <=> to \in Raised) => InSection' = InSection
         /\ from \notin Raised /\ to \in Raised =>
              /\ IsFiniteSet(InSection')
              /\ Cardinality(InSection') = Cardinality(InSection) + 1
         /\ from \in Raised /\ to \notin Raised =>
              /\ IsFiniteSet(InSection')
              /\ Cardinality(InSection') = Cardinality(InSection) - 1
<1>1. /\ running \in Tasks /\ at[running] = from /\ at'[running] = to
      /\ \A t \in Tasks : t # running => at'[t] = at[t]
  BY StepMoves
<1>2. IsFiniteSet(InSection)
  BY DEF ContextOK
<1>3. ASSUME from \in Raised <=> to \in Raised PROVE InSection' = InSection
  BY <1>1, <1>3 DEF InSection
<1>4. ASSUME from \notin Raised, to \in Raised
      PROVE  InSection' = InSection \cup {running} /\ running \notin InSection
  BY <1>1, <1>4 DEF InSection
<1>5. ASSUME from \in Raised, to \notin Raised
      PROVE  InSection' = InSection \ {running} /\ running \in InSection
  BY <1>1, <1>5 DEF InSection
<1>6. ASSUME from \notin Raised, to \in Raised
      PROVE  /\ IsFiniteSet(InSection')
             /\ Cardinality(InSection') = Cardinality(InSection) + 1
  BY <1>2, <1>4, <1>6, FS_AddElement
<1>7. ASSUME from \in Raised, to \notin Raised
      PROVE  /\ IsFiniteSet(InSection')
             /\ Cardinality(InSection') = Cardinality(InSection) - 1
  BY <1>2, <1>5, <1>7, FS_RemoveElement
<1>. QED
  BY <1>3, <1>6, <1>7

\* A statement that is neither irq_disable, irq_enable nor the switch.
LEMMA PlainStep ==
  ASSUME PreemptionInv, NEW from, NEW to \in Statements, Step(from, to),
         from \in Raised <=> to \in Raised,
         UNCHANGED <<irq_disable_counter, running, inTick, inOwnCode, switches>>,
         to = "fault" \/ interrupts' = interrupts,
         from # "fault",
         next_task' # NoTask => to \in Chosen
  PROVE  PreemptionInv'
<1>1. /\ running \in Tasks /\ at[running] = from /\ at'[running] = to
      /\ at' \in [AllTasks -> Statements]
      /\ \A t \in Tasks : t # running => at'[t] = at[t]
  BY StepMoves DEF PreemptionInv
<1>2. InSection' = InSection
  BY SectionMoves DEF PreemptionInv
<1>3. ContextOK' /\ CountedOnce'
  BY <1>1, <1>2 DEF PreemptionInv, ContextOK, CountedOnce
<1>4. DisableLeaksPerSwitch'
  BY <1>2 DEF PreemptionInv, DisableLeaksPerSwitch, InSection, Raised
<1>5. SectionsInterruptible'
  BY <1>1 DEF PreemptionInv, SectionsInterruptible
<1>6. NoStaleChoice'
  BY <1>1 DEF NoStaleChoice, Chosen
<1>. QED
  BY <1>3, <1>4, <1>5, <1>6 DEF PreemptionInv

\* Away from run_task there is no choice to go stale.
LEMMA NoChoice ==
  ASSUME PreemptionInv, at[running] \notin Chosen
  PROVE  next_task = NoTask
BY DEF PreemptionInv, NoStaleChoice, Chosen

\* The statements that touch neither the counter nor next_task.
LEMMA QuietInv ==
  ASSUME PreemptionInv,
         \/ CallSleep \/ LockTs \/ InsertSleeping \/ ChangeState \/ UnlockTs
         \/ ScheduleLocks \/ Pick \/ RemovePicked
  PROVE  PreemptionInv'
<1>. USE DEF locks, Statements, Raised, Chosen
<1>1. ASSUME NEW from, NEW to \in Statements, Step(from, to),
             from \in Raised <=> to \in Raised, from \notin Chosen \cup {"fault"},
             UNCHANGED <<irq_disable_counter, interrupts, running, next_task>>,
             UNCHANGED <<inTick, inOwnCode, switches>>
      PROVE  PreemptionInv'
  <2>1. next_task' = NoTask
    BY <1>1, NoChoice, StepMoves DEF PreemptionInv
  <2>. HIDE DEF Statements, Raised, Chosen
  <2>. QED
    BY <1>1, <2>1, PlainStep
<1>2. CASE CallSleep
  BY <1>1, <1>2 DEF CallSleep
<1>3. CASE LockTs
  BY <1>1, <1>3 DEF LockTs
<1>4. CASE InsertSleeping
  BY <1>1, <1>4 DEF InsertSleeping
<1>5. CASE ChangeState
  BY <1>1, <1>5 DEF ChangeState
<1>6. CASE UnlockTs
  BY <1>1, <1>6 DEF UnlockTs
<1>7. CASE ScheduleLocks
  BY <1>1, <1>7 DEF ScheduleLocks
<1>8. CASE Pick
  BY <1>1, <1>8 DEF Pick
<1>9. CASE RemovePicked
  BY <1>1, <1>9 DEF RemovePicked
<1>. QED
  BY <1>2, <1>3, <1>4, <1>5, <1>6, <1>7, <1>8, <1>9

\* The statements that make the choice and test it.
LEMMA ChoiceInv ==
  ASSUME PreemptionInv, SetNextTask \/ RunTask \/ ActivateNext \/ NextTaskFault
  PROVE  PreemptionInv'
<1>. USE DEF locks, Statements, Raised, Chosen
<1>1. CASE SetNextTask
  BY <1>1, PlainStep DEF SetNextTask
<1>2. CASE RunTask
  BY <1>2, PlainStep DEF RunTask
<1>3. CASE NextTaskFault
  BY <1>3, PlainStep DEF NextTaskFault
<1>4. CASE ActivateNext
  BY <1>4, PlainStep DEF ActivateNext
<1>. QED
  BY <1>1, <1>2, <1>3, <1>4

\* irq_disable, of task_block or of run_task, raises the counter; after the first
\* switch it leaves the flag alone.
LEMMA IrqDisableInv ==
  ASSUME PreemptionInv, IrqDisable \/ RunTaskDisable
  PROVE  PreemptionInv'
<1>. USE DEF PreemptionInv
<1>1. PICK from \in Statements, to \in Statements :
        /\ Step(from, to) /\ from \notin Raised /\ to \in Raised
        /\ from \in Chosen <=> to \in Chosen
        /\ irq_disable_counter' = irq_disable_counter + 1
        /\ interrupts' = IF irq_disable_counter = 0 THEN FALSE ELSE interrupts
        /\ UNCHANGED <<running, next_task, inTick, inOwnCode, switches>>
        /\ to # "fault"
  BY DEF IrqDisable, RunTaskDisable, DisabledFlag, Statements, Raised, Chosen
<1>2. /\ running \in Tasks /\ at[running] = from /\ at'[running] = to
      /\ at' \in [AllTasks -> Statements]
      /\ \A t \in Tasks : t # running => at'[t] = at[t]
  BY <1>1, StepMoves
<1>3. /\ IsFiniteSet(InSection')
      /\ Cardinality(InSection') = Cardinality(InSection) + 1
  BY <1>1, SectionMoves
<1>4. ContextOK' /\ CountedOnce'
  BY <1>1, <1>2, <1>3 DEF ContextOK, CountedOnce
<1>5. irq_disable_counter' = switches' + Cardinality(InSection') + Cardinality(inTick')
  BY <1>1, <1>3, CounterPositive DEF ContextOK
<1>6. DisableLeaksPerSwitch'
  BY <1>5 DEF DisableLeaksPerSwitch, InSection, Raised
<1>7. from # "fault"
  BY <1>1 DEF Raised
<1>9. SectionsInterruptible'
  BY <1>1, <1>2, <1>7, CounterPositive DEF SectionsInterruptible
<1>8. NoStaleChoice'
  BY <1>1, <1>2, NoChoice DEF NoStaleChoice, Chosen
<1>. QED
  BY <1>4, <1>6, <1>8, <1>9

\* irq_enable leaves it.
LEMMA IrqEnableInv ==
  ASSUME PreemptionInv, IrqEnable
  PROVE  PreemptionInv'
<1>. USE DEF PreemptionInv
<1>1. /\ Step("irq_enable", "unlock_ts") /\ "unlock_ts" \in Statements
      /\ irq_disable_counter' = irq_disable_counter - 1
      /\ interrupts' = IF irq_disable_counter = 1 THEN TRUE ELSE interrupts
      /\ UNCHANGED <<running, next_task, inTick, inOwnCode, switches>>
  BY DEF IrqEnable, EnabledFlag, Statements
<1>2. /\ running \in Tasks /\ at[running] = "irq_enable" /\ at'[running] = "unlock_ts"
      /\ at' \in [AllTasks -> Statements]
      /\ \A t \in Tasks : t # running => at'[t] = at[t]
  BY <1>1, StepMoves
<1>3. /\ IsFiniteSet(InSection')
      /\ Cardinality(InSection') = Cardinality(InSection) - 1
  BY <1>1, SectionMoves DEF Raised
<1>4. ContextOK' /\ CountedOnce'
  BY <1>1, <1>2, <1>3 DEF ContextOK, CountedOnce
<1>5. irq_disable_counter' = switches' + Cardinality(InSection') + Cardinality(inTick')
  BY <1>1, <1>3, CounterPositive DEF ContextOK
<1>6. DisableLeaksPerSwitch'
  BY <1>5 DEF DisableLeaksPerSwitch, InSection, Raised
<1>7. SectionsInterruptible'
  BY <1>1, <1>2 DEF SectionsInterruptible
<1>8. NoStaleChoice'
  BY <1>1, <1>2, NoChoice DEF NoStaleChoice, Chosen
<1>. QED
  BY <1>4, <1>6, <1>7, <1>8

-----------------------------------------------------------------------------
(* The context switches.                                                    *)

\* switch_task, called by a task at place to, with the tasks in a tick as they become.
LEMMA SwitchInv ==
  ASSUME PreemptionInv, NEW t, NEW counter \in Nat, SwitchTo(t, counter),
         at' \in [AllTasks -> Statements], IsFiniteSet(InSection'),
         inTick' \subseteq Tasks, IsFiniteSet(inTick'),
         counter = switches + 1 + Cardinality(InSection') + Cardinality(inTick')
  PROVE  PreemptionInv'
<1>. USE DEF PreemptionInv
<1>1. /\ switches' = switches + 1 /\ running' = t
      /\ irq_disable_counter' = counter
      /\ interrupts' = TRUE /\ next_task' = NoTask /\ inOwnCode' = inOwnCode \ {t}
  BY DEF SwitchTo
<1>2. ContextOK' /\ CountedOnce'
  BY <1>1 DEF ContextOK, CountedOnce
<1>4. irq_disable_counter' = switches' + Cardinality(InSection') + Cardinality(inTick')
  BY <1>1
<1>5. DisableLeaksPerSwitch'
  BY <1>4 DEF DisableLeaksPerSwitch, InSection, Raised
<1>6. SectionsInterruptible' /\ NoStaleChoice'
  BY <1>1 DEF SectionsInterruptible, NoStaleChoice
<1>. QED
  BY <1>2, <1>5, <1>6

\* The switch of the idle loop, which raises the counter with it, and the one of
\* sleep(), whose task has raised it before.
LEMMA OwnSwitchInv ==
  ASSUME PreemptionInv, IdleLoop \/ SwitchTask
  PROVE  PreemptionInv'
<1>. USE DEF PreemptionInv
<1>1. irq_disable_counter \in Nat
  BY CounterPositive
<1>2. CASE IdleLoop
  <2>. DEFINE counter == irq_disable_counter + 1
  <2>1. UNCHANGED <<at, inTick>> /\ SwitchTo(available.head, counter)
    BY <1>2 DEF IdleLoop, RunTaskTo
  <2>2. InSection' = InSection
    BY <2>1 DEF InSection
  <2>3. /\ counter \in Nat
        /\ counter = switches + 1 + Cardinality(InSection') + Cardinality(inTick')
    BY <2>1, <2>2, CounterPositive DEF ContextOK
  <2>. HIDE DEF counter
  <2>. QED
    BY <2>1, <2>2, <2>3, SwitchInv DEF ContextOK
<1>3. CASE SwitchTask
  <2>1. /\ Step("switch", "own") /\ "own" \in Statements
        /\ UNCHANGED inTick /\ SwitchTo(next_task, irq_disable_counter)
    BY <1>3 DEF SwitchTask, Statements
  <2>2. /\ IsFiniteSet(InSection')
        /\ Cardinality(InSection') = Cardinality(InSection) - 1
    BY <2>1, SectionMoves DEF Raised
  <2>3. at' \in [AllTasks -> Statements]
    BY <2>1, StepMoves
  <2>4. irq_disable_counter = switches + 1 + Cardinality(InSection') + Cardinality(inTick')
    BY <2>1, <2>2, CounterPositive DEF ContextOK
  <2>. QED
    BY <1>1, <2>1, <2>2, <2>3, <2>4, SwitchInv DEF ContextOK
<1>. QED
  BY <1>2, <1>3

\* The clock interrupt: it returns to the task, or switches away from it in the middle
\* of the handler, with one more irq_disable to undo when the task is back.
LEMMA TickInv ==
  ASSUME PreemptionInv, Tick
  PROVE  PreemptionInv'
<1>. USE DEF PreemptionInv
<1>1. PICK w : TickReturns(w) \/ SliceOver(w)
  BY DEF Tick
<1>2. CASE TickReturns(w)
  <2>1. UNCHANGED <<interrupts, irq_disable_counter, running, next_task, context, switches>>
    BY <1>2 DEF TickReturns
  <2>. QED
    BY <2>1 DEF context, ContextOK, InSection, CountedOnce, DisableLeaksPerSwitch,
                SectionsInterruptible, NoStaleChoice
<1>3. ASSUME NEW t, NEW st, running \in inOwnCode, UNCHANGED at,
             RunTaskTo(t, st, irq_disable_counter + 1), inTick' = inTick \cup {running}
      PROVE  PreemptionInv'
  <2>1. running \in Tasks /\ running \notin inTick
    BY <1>3 DEF ContextOK, CountedOnce
  <2>2. /\ IsFiniteSet(inTick') /\ inTick' \subseteq Tasks
        /\ Cardinality(inTick') = Cardinality(inTick) + 1
    BY <1>3, <2>1, FS_AddElement DEF ContextOK
  <2>3. InSection' = InSection /\ at' \in [AllTasks -> Statements]
    BY <1>3 DEF InSection, ContextOK
  <2>. DEFINE counter == irq_disable_counter + 1 + 1
  <2>4. /\ counter \in Nat
        /\ counter = switches + 1 + Cardinality(InSection') + Cardinality(inTick')
    BY <2>2, <2>3, CounterPositive DEF ContextOK
  <2>6. SwitchTo(t, counter)
    BY <1>3 DEF RunTaskTo
  <2>. HIDE DEF counter
  <2>. QED
    BY <2>2, <2>3, <2>4, <2>6, SwitchInv DEF ContextOK
<1>4. ASSUME UNCHANGED <<interrupts, irq_disable_counter, running, inTick, switches, at>>,
             next_task' = NoTask, inOwnCode' = inOwnCode \ {running}
      PROVE  PreemptionInv'
  BY <1>4 DEF ContextOK, InSection, CountedOnce, DisableLeaksPerSwitch,
              SectionsInterruptible, NoStaleChoice
<1>5. CASE SliceOver(w)
  BY <1>3, <1>4, <1>5 DEF SliceOver
<1>. QED
  BY <1>1, <1>2, <1>5

\* The return from it undoes that irq_disable.
LEMMA ReturnInv ==
  ASSUME PreemptionInv, ReturnFromTick
  PROVE  PreemptionInv'
<1>. USE DEF PreemptionInv
<1>1. /\ running \in inTick /\ inTick' = inTick \ {running}
      /\ irq_disable_counter' = irq_disable_counter - 1
      /\ interrupts' = IF irq_disable_counter = 1 THEN TRUE ELSE interrupts
      /\ UNCHANGED <<running, next_task, at, inOwnCode, switches>>
  BY DEF ReturnFromTick, EnabledFlag
<1>2. IsFiniteSet(inTick') /\ Cardinality(inTick') = Cardinality(inTick) - 1
  BY <1>1, FS_RemoveElement DEF ContextOK
<1>3. InSection' = InSection
  BY <1>1 DEF InSection
<1>4. ContextOK' /\ CountedOnce'
  BY <1>1, <1>2, <1>3 DEF ContextOK, CountedOnce
<1>5. irq_disable_counter' = switches' + Cardinality(InSection') + Cardinality(inTick')
  BY <1>1, <1>2, <1>3, CounterPositive DEF ContextOK
<1>6. DisableLeaksPerSwitch'
  BY <1>5 DEF DisableLeaksPerSwitch, InSection, Raised
<1>7. SectionsInterruptible' /\ NoStaleChoice'
  BY <1>1 DEF SectionsInterruptible, NoStaleChoice
<1>. QED
  BY <1>4, <1>6, <1>7

\* A task computes, or one is created: nothing the invariant speaks of moves, but that
\* a task is back in its own code.
LEMMA ComputeInv ==
  ASSUME PreemptionInv, Compute \/ (\E t \in Tasks : CreateTask(t)) \/ UNCHANGED vars
  PROVE  PreemptionInv'
<1>1. /\ UNCHANGED <<interrupts, irq_disable_counter, running, next_task>>
      /\ UNCHANGED <<at, inTick, switches>>
      /\ \/ inOwnCode' = inOwnCode
         \/ /\ inOwnCode' = inOwnCode \cup {running}
            /\ running \in Tasks \ inTick
  BY DEF Compute, CreateTask, vars, locks, context
<1>. QED
  BY <1>1 DEF PreemptionInv, ContextOK, InSection, CountedOnce, DisableLeaksPerSwitch,
              SectionsInterruptible, NoStaleChoice

-----------------------------------------------------------------------------
(* The theorems.                                                            *)

\* The inductive invariant holds of every reachable state.
THEOREM PreemptionInvariant == Spec => []PreemptionInv
<1>1. Init => PreemptionInv
  BY InitPreemptionInv
<1>2. PreemptionInv /\ [Next]_vars => PreemptionInv'
  BY QuietInv, ChoiceInv, IrqDisableInv, IrqEnableInv, OwnSwitchInv, TickInv, ReturnInv,
     ComputeInv DEF Next, SleepCall
<1>. QED
  BY <1>1, <1>2, PTL DEF Spec

\* irq_disable_counter counts the context switches, for ever, next to the tasks that
\* have raised it, in task_block's section or in run_task, and the ticks still to be
\* left.
THEOREM CounterLeaks == Spec => []DisableLeaksPerSwitch
<1>1. PreemptionInv => DisableLeaksPerSwitch
  BY DEF PreemptionInv
<1>. QED
  BY <1>1, PreemptionInvariant, PTL

\* From the first switch on, the sections between irq_disable and irq_enable run with
\* interrupts on.
THEOREM SectionsNeverHoldOff == Spec => []SectionsInterruptible
<1>1. PreemptionInv => SectionsInterruptible
  BY DEF PreemptionInv
<1>. QED
  BY <1>1, PreemptionInvariant, PTL

\* A task schedule() chose is switched to by the task that chose it, or not at all.
THEOREM ChoicesFresh == Spec => []NoStaleChoice
<1>1. PreemptionInv => NoStaleChoice
  BY DEF PreemptionInv
<1>. QED
  BY <1>1, PreemptionInvariant, PTL
=============================================================================
