---------------------------- MODULE MCTaskLists ----------------------------
(* Two lists and four tasks: enough for a task in front, in the middle and at *)
(* the end of a list, while another list is not empty.                        *)
EXTENDS TaskLists
=============================================================================
