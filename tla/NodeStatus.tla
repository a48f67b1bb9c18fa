------------------------------ MODULE NodeStatus ------------------------------
(***************************************************************************)
(* The five answers and states of a node (basic_types.h, NodeStatus) and   *)
(* the two classifications the engine makes of them.                       *)
(***************************************************************************)

IDLE    == "IDLE"
RUNNING == "RUNNING"
SUCCESS == "SUCCESS"
FAILURE == "FAILURE"
SKIPPED == "SKIPPED"

NodeStatus == {IDLE, RUNNING, SUCCESS, FAILURE, SKIPPED}

Completed == {SUCCESS, FAILURE}

isStatusActive(s) == s \notin {IDLE, SKIPPED}

isStatusCompleted(s) == s \in Completed

\* SUCCESS and FAILURE exchanged: what tells Fallback from Sequence.
Opposite(s) == IF s = SUCCESS THEN FAILURE ELSE SUCCESS
===============================================================================
