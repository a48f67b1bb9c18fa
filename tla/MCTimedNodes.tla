----------------------------- MODULE MCTimedNodes -----------------------------
(***************************************************************************)
(* Each kind of timed node with two timers, so that the one of an execution *)
(* that was halted can meet the next execution.                            *)
(***************************************************************************)
EXTENDS TimedNodes

MCKinds == {"Sleep", "Delay", "Timeout", "Test"}

MCChildAnswers == {"RUNNING", "SUCCESS", "SKIPPED"}
===============================================================================
