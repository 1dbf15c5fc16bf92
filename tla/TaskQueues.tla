----------------------------- MODULE TaskQueues ----------------------------
(***************************************************************************)
(* What the task lists promise: several queues, each task in at most one of  *)
(* them, added at either end and taken out from anywhere.                    *)
(***************************************************************************)
EXTENDS TaskQueue

CONSTANTS Tasks, Lists

VARIABLE queues    \* the contents of every list, head first

Init == queues = [l \in Lists |-> <<>>]

Queued(t) == \E l \in Lists : InList(t, queues[l])

PushBack(l, t) ==
  /\ ~Queued(t)
  /\ queues' = [queues EXCEPT ![l] = Append(@, t)]

PushFront(l, t) ==
  /\ ~Queued(t)
  /\ queues' = [queues EXCEPT ![l] = <<t>> \o @]

TakeOut(l, t) == queues' = [queues EXCEPT ![l] = RemoveTask(@, t)]

Next ==
  \E l \in Lists, t \in Tasks : PushBack(l, t) \/ PushFront(l, t) \/ TakeOut(l, t)

Spec == Init /\ [][Next]_queues
=============================================================================
