------------------------------ MODULE MCMutex ------------------------------
(* Three tasks: one that has the mutex and two that ask for it.               *)
EXTENDS Mutex
=============================================================================
