------------------------------ MODULE MCLoggers ------------------------------
(***************************************************************************)
(* A tree thread and the thread of an action, either logger, two sessions. *)
(***************************************************************************)
EXTENDS Loggers

MCNode == {"sequence", "action"}
MCKinds == {"File", "Sqlite"}
===============================================================================
