----------------------------- MODULE WakeUpSignal -----------------------------
(***************************************************************************)
(* utils/wakeup_signal.hpp: one thread waits, any thread emits.  emitSignal *)
(* takes no mutex, so it can come between any two steps of waitFor().      *)
(***************************************************************************)

VARIABLES
    ready,     \* ready_
    waiting,   \* where the waiting thread is in waitFor()
    signalled  \* what waitFor() is going to return

signalVars == <<ready, waiting, signalled>>

WaitPC == {"out", "check", "block", "asleep", "clear"}

SignalTypeOK == ready \in BOOLEAN /\ waiting \in WaitPC /\ signalled \in BOOLEAN

SignalInit == ready = FALSE /\ waiting = "out" /\ signalled = FALSE

WaitStep(from, to) == waiting = from /\ waiting' = to

BeginWait == WaitStep("out", "check") /\ UNCHANGED <<ready, signalled>>

\* The predicate: waitFor(0) does not block.
Check(usec) ==
    /\ WaitStep("check", IF ready \/ usec = 0 THEN "clear" ELSE "block")
    /\ signalled' = ready /\ UNCHANGED ready

Block == WaitStep("block", "asleep") /\ UNCHANGED <<ready, signalled>>

\* The time is over; the predicate is evaluated a last time.
TimeOut == WaitStep("asleep", "clear") /\ signalled' = ready /\ UNCHANGED ready

Clear == WaitStep("clear", "out") /\ ready' = FALSE /\ UNCHANGED signalled

\* emitSignal() in two steps: a thread that has not blocked yet misses the
\* second.
SetReady == ready' = TRUE /\ UNCHANGED <<waiting, signalled>>

NotifyAll ==
    /\ waiting' = IF waiting = "asleep" THEN "check" ELSE waiting
    /\ UNCHANGED <<ready, signalled>>
===============================================================================
