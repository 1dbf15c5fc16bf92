---------------------------- MODULE MCPreemption ---------------------------
(* Small instances of Preemption for TLC.  The tasks are interchangeable: the *)
(* specification treats them alike and names none of them.                    *)
EXTENDS Preemption, TLC

Symmetry == Permutations(Tasks)
=============================================================================
