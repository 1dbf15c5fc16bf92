----------------------------- MODULE TaskQueue -----------------------------
(***************************************************************************)
(* The kernel's task lists as Scheduler sees them: sequences.  TaskLists     *)
(* shows that the linked lists of the code implement them.                   *)
(***************************************************************************)
EXTENDS Naturals, Sequences, SequencesExt

InList(t, list) == \E i \in DOMAIN list : list[i] = t

FirstIndex(t, list) ==
  CHOOSE i \in DOMAIN list : list[i] = t /\ \A j \in 1..(i - 1) : list[j] # t

\* task_list_remove_task: a list that does not hold the task stays as it was.
RemoveTask(list, t) ==
  IF InList(t, list) THEN RemoveAt(list, FirstIndex(t, list)) ELSE list
=============================================================================
