----------------------------- MODULE LinkedList ----------------------------
(***************************************************************************)
(* task_list_t and its operations (Kernel/Process/process.c): a head and a   *)
(* tail pointer, and one flink per task control block, shared by all lists.  *)
(* A list l is the record [head, tail]; an operation returns the list and    *)
(* the flinks it leaves.                                                     *)
(***************************************************************************)
EXTENDS Naturals, FiniteSets

CONSTANTS Tasks, NoTask    \* NoTask is NULL

\* Control blocks are carved out of the kernel's heap: there are only so many.
ASSUME ListAssumption == IsFiniteSet(Tasks) /\ NoTask \notin Tasks

\* Mutant: only the head is set to NULL.
HeadlessTaskList == [head |-> NoTask, tail |-> "garbage"]

EmptyTaskList == [head |-> NoTask, tail |-> NoTask]

\* The task reached from t by following n flinks, NoTask when they run out.
Follow(t, n, flink) ==
  LET f[i \in 0..n] ==
        IF i = 0 THEN t
        ELSE IF f[i - 1] = NoTask THEN NoTask ELSE flink[f[i - 1]]
  IN  f[n]

\* The tasks of a list are within as many steps of its head as there are tasks.
Reach == 0..(Cardinality(Tasks) - 1)

Holds(list, t, flink) == \E n \in Reach : Follow(list.head, n, flink) = t

\* while (list->tail->flink) { list->tail = list->tail->flink; }
LastFrom(h, flink) ==
  IF h = NoTask THEN NoTask
  ELSE CHOOSE t \in Tasks :
         flink[t] = NoTask /\ \E n \in Reach : Follow(h, n, flink) = t

InsertFront(list, t, flink) ==
  IF list.head = NoTask
  THEN [list |-> [head |-> t, tail |-> t], flink |-> [flink EXCEPT ![t] = NoTask]]
  ELSE [list |-> [list EXCEPT !.head = t], flink |-> [flink EXCEPT ![t] = list.head]]

\* Mutant: the first task of a list keeps the flink it had.
InsertBackKeepsFlink(list, t, flink) ==
  IF list.tail = NoTask
  THEN [list |-> [head |-> t, tail |-> t], flink |-> flink]
  ELSE [list |-> [list EXCEPT !.tail = t],
        flink |-> [[flink EXCEPT ![list.tail] = t] EXCEPT ![t] = NoTask]]

InsertBack(list, t, flink) ==
  IF list.tail = NoTask
  THEN [list |-> [head |-> t, tail |-> t], flink |-> [flink EXCEPT ![t] = NoTask]]
  ELSE [list |-> [list EXCEPT !.tail = t],
        flink |-> [[flink EXCEPT ![list.tail] = t] EXCEPT ![t] = NoTask]]

\* Mutant: the task is unlinked and the tail is left as it was.
RemoveFromKeepsTail(list, t, flink) ==
  IF ~Holds(list, t, flink) THEN [list |-> list, flink |-> flink]
  ELSE LET n == CHOOSE i \in Reach : Follow(list.head, i, flink) = t
       IN  IF n = 0 THEN [list |-> [list EXCEPT !.head = flink[t]], flink |-> flink]
           ELSE [list |-> list,
                 flink |-> [flink EXCEPT ![Follow(list.head, n - 1, flink)] = flink[t]]]

\* *indirect = task->flink, where indirect is the head or the flink of the task
\* before; the tail is found again from the head.  The task keeps its own flink.
RemoveFrom(list, t, flink) ==
  IF ~Holds(list, t, flink) THEN [list |-> list, flink |-> flink]
  ELSE LET n  == CHOOSE i \in Reach :
                   /\ Follow(list.head, i, flink) = t
                   /\ \A j \in 0..(i - 1) : Follow(list.head, j, flink) # t
           fl == IF n = 0 THEN flink
                 ELSE [flink EXCEPT ![Follow(list.head, n - 1, flink)] = flink[t]]
           h  == IF n = 0 THEN flink[t] ELSE list.head
       IN  [list |-> [head |-> h, tail |-> LastFrom(h, fl)], flink |-> fl]
=============================================================================
