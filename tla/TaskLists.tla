----------------------------- MODULE TaskLists -----------------------------
(***************************************************************************)
(* The task lists of the kernel at the level of their pointers, used as the   *)
(* scheduler uses them: a task is inserted only when it is in no list.  They  *)
(* implement the queues of TaskQueues.                                        *)
(***************************************************************************)
EXTENDS LinkedList, Sequences

CONSTANT Lists

VARIABLES
  lists,    \* the task_list_t of every list
  flink     \* the flink of every control block

listVars == <<lists, flink>>

Init ==
  /\ lists = [l \in Lists |-> EmptyTaskList]
  /\ flink = [t \in Tasks |-> NoTask]

Queued(t) == \E l \in Lists : Holds(lists[l], t, flink)

\* A list operation on l, given what it returns.
Update(l, result) ==
  /\ lists' = [lists EXCEPT ![l] = result.list]
  /\ flink' = result.flink

PushFront(l, t) == ~Queued(t) /\ Update(l, InsertFront(lists[l], t, flink))
PushBack(l, t)  == ~Queued(t) /\ Update(l, InsertBack(lists[l], t, flink))
TakeOut(l, t)   == Update(l, RemoveFrom(lists[l], t, flink))

Next ==
  \E l \in Lists, t \in Tasks : PushFront(l, t) \/ PushBack(l, t) \/ TakeOut(l, t)

Spec == Init /\ [][Next]_listVars

-----------------------------------------------------------------------------
\* Pointers are to control blocks or NULL.
TypeOK ==
  /\ lists \in [Lists -> [head : Tasks \cup {NoTask}, tail : Tasks \cup {NoTask}]]
  /\ flink \in [Tasks -> Tasks \cup {NoTask}]

\* The tail pointer, which insertion trusts, is the task the walk from the head
\* ends at, and the walk does end.
TailEndsTheWalk ==
  \A l \in Lists :
    LET list == lists[l]
    IN  /\ list.head = NoTask <=> list.tail = NoTask
        /\ list.tail # NoTask =>
             Holds(list, list.tail, flink) /\ flink[list.tail] = NoTask

\* Two lists never run into each other, although one flink serves them all.
ListsDisjoint ==
  \A k, l \in Lists : \A t \in Tasks :
    Holds(lists[k], t, flink) /\ Holds(lists[l], t, flink) => k = l

\* The sequence of tasks on the walk from the head.
Contents(list, fl) ==
  LET n == Cardinality({t \in Tasks : Holds(list, t, fl)})
  IN  [i \in 1..n |-> Follow(list.head, i - 1, fl)]

Abstract == INSTANCE TaskQueues WITH queues <- [l \in Lists |-> Contents(lists[l], flink)]

\* The linked lists behave as the queues Scheduler takes them for.
ImplementsQueues == Abstract!Spec
=============================================================================
