--------------------------- MODULE MCTaskCleaner ---------------------------
(* Small instances of TaskCleaner for TLC. *)
EXTENDS TaskCleaner
=============================================================================
