---------------------------- MODULE MCAsyncActions ----------------------------
(***************************************************************************)
(* Up to three executions: one that was halted or has thrown, one whose    *)
(* thread is still to emit its signal, and the current one.                *)
(***************************************************************************)
EXTENDS AsyncActions

MCKinds == {"Threaded", "Coro"}

MCOutcomes == {"SUCCESS", "FAILURE", "THROW"}

===============================================================================
