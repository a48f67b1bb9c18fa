----------------------------- MODULE TimerService -----------------------------
(***************************************************************************)
(* What becomes of the handlers of a queue of utils/timer_queue.h: each is *)
(* executed when its time has come, or with aborted = true after it was    *)
(* cancelled, and never again; it is called sooner or later unless the     *)
(* queue is destroyed first.  The class comment (timer_queue.h:64-66) says *)
(* more, that the destructor has all handlers called: it does not.         *)
(***************************************************************************)
EXTENDS Naturals

CONSTANT Handler      \* one for every call of add()

VARIABLES
    handlers,    \* what has become of each
    closed       \* the destructor has begun

vars == <<handlers, closed>>

HandlerState == {"new", "waiting", "cancelled", "executed", "aborted"}

TypeInvariant == handlers \in [Handler -> HandlerState] /\ closed \in BOOLEAN

Init == handlers = [h \in Handler |-> "new"] /\ closed = FALSE

Move(H, from, to) ==
    /\ \A h \in H : handlers[h] = from
    /\ handlers' = [h \in Handler |-> IF h \in H THEN to ELSE handlers[h]]
    /\ closed' = closed

Add(h) == ~closed /\ Move({h}, "new", "waiting")

\* cancel() of one handler, cancelAll() of those there are.
Cancel(H) == Move(H, "waiting", "cancelled")

Execute(h) == Move({h}, "waiting", "executed")

Abort(h) == Move({h}, "cancelled", "aborted")

Close == closed' = TRUE /\ handlers' = handlers

Next ==
    \/ \E h \in Handler : Add(h) \/ Execute(h) \/ Abort(h)
    \/ \E H \in SUBSET Handler : Cancel(H)
    \/ Close

Spec == Init /\ [][Next]_vars

\* No handler is forgotten as long as the queue lives.
Served ==
    \A h \in Handler :
        handlers[h] \in {"waiting", "cancelled"} ~>
            closed \/ handlers[h] \in {"executed", "aborted"}
===============================================================================
