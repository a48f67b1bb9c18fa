------------------------------ MODULE TimerQueue ------------------------------
(***************************************************************************)
(* utils/timer_queue.h.  One step per critical section of m_mtx: outside   *)
(* of them the owner's thread and the worker only use the semaphore.       *)
(*                                                                         *)
(* A handler is known by the id add() gave it.  Time starts at 1, since a  *)
(* cancelled item ends at 0, and passes while an item is still to come.    *)
(***************************************************************************)
EXTENDS Integers, FiniteSets

CONSTANTS
    MaxTimers,    \* bound: calls of add()
    MaxDelay      \* bound: milliseconds of a timer

ASSUME TimersAssumption == MaxTimers \in Nat \ {0} /\ MaxDelay \in Nat

VARIABLES
    items,       \* m_items; id 0 is a cancelled item, handler 0 an empty one
    idcounter,   \* m_idcounter
    count,       \* m_checkWork.m_count
    unlock,      \* m_checkWork.m_unlock
    finish,      \* m_finish
    now,         \* the clock
    worker,      \* where the worker thread is in run()
    until,       \* the end calcWaitTime() found
    current,     \* the handler being called, and whether with aborted
    outcome      \* no code: what each handler was called with

workerVars == <<worker, until, current, outcome>>
queueVars == <<items, idcounter, count, unlock, finish, now, workerVars>>

Horizon == 1 + MaxTimers * MaxDelay
NoTimer == Horizon + 1    \* an empty queue: waits 10 ms

Handler == 1 .. MaxTimers
Item == [id : 0 .. MaxTimers, end : 0 .. Horizon, handler : 0 .. MaxTimers]
Call == [handler : 0 .. MaxTimers, aborted : BOOLEAN]
NoCall == [handler |-> 0, aborted |-> FALSE]

QueueTypeOK ==
    /\ items \subseteq Item
    /\ idcounter \in 0 .. MaxTimers
    /\ count \in Nat /\ unlock \in BOOLEAN /\ finish \in BOOLEAN
    /\ worker \in {"check", "calc", "wait", "work", "call", "halting", "done"}
    /\ now \in 1 .. Horizon /\ until \in 0 .. NoTimer
    /\ current \in Call
    /\ outcome \in [Handler -> {"none", "executed", "aborted"}]

QueueInit ==
    /\ items = {} /\ idcounter = 0
    /\ count = 0 /\ unlock = FALSE /\ finish = FALSE
    /\ now = 1 /\ worker = "check" /\ until = NoTimer /\ current = NoCall
    /\ outcome = [h \in Handler |-> "none"]

WithHandler == {i \in items : i.handler # 0}

-------------------------------------------------------------------------------
(* The owner's thread. *)

Add(msec) ==
    /\ idcounter < MaxTimers
    /\ idcounter' = idcounter + 1
    /\ items' = items \cup {[id |-> idcounter', end |-> now + msec, handler |-> idcounter']}
    /\ count' = count + 1
    /\ UNCHANGED <<unlock, finish, now, workerVars>>

\* Mutant of Cancel: the handler is copied, not moved.
CancelCopies(id) ==
    LET found == {i \in WithHandler : i.id = id}
    IN  /\ items' = items \cup {[id |-> 0, end |-> 0, handler |-> i.handler] : i \in found}
        /\ count' = IF found = {} THEN count ELSE count + 1
        /\ UNCHANGED <<idcounter, unlock, finish, now, workerVars>>

\* cancel(id): the handler moves to a new item that ends at once; the old
\* item stays where it is, empty.
Cancel(id) ==
    LET found == {i \in WithHandler : i.id = id}
    IN  /\ items' = (items \ found)
                      \cup {[i EXCEPT !.handler = 0] : i \in found}
                      \cup {[id |-> 0, end |-> 0, handler |-> i.handler] : i \in found}
        /\ count' = IF found = {} THEN count ELSE count + 1
        /\ UNCHANGED <<idcounter, unlock, finish, now, workerVars>>

\* Mutant of CancelAll: the worker is not told.
CancelAllSilently ==
    /\ items' = {[id |-> 0, end |-> 0, handler |-> i.handler] : i \in items}
    /\ UNCHANGED <<idcounter, count, unlock, finish, now, workerVars>>

CancelAll ==
    /\ items' = {[id |-> 0, end |-> 0, handler |-> i.handler] : i \in items}
    /\ count' = count + 1
    /\ UNCHANGED <<idcounter, unlock, finish, now, workerVars>>

\* The destructor: m_finish, then cancelAll(), manualUnlock(), join().
Finish ==
    /\ finish' = TRUE
    /\ UNCHANGED <<items, idcounter, count, unlock, now, workerVars>>

ManualUnlock ==
    /\ unlock' = TRUE
    /\ UNCHANGED <<items, idcounter, count, finish, now, workerVars>>

-------------------------------------------------------------------------------
(* Time, and the worker thread. *)

Due == {i \in items : i.end <= now}

Tick ==
    /\ \E i \in items : i.end > now
    /\ now' = now + 1
    /\ UNCHANGED <<items, idcounter, count, unlock, finish, workerVars>>

Step(from, to) == worker = from /\ worker' = to

LoopCheck ==
    /\ Step("check", IF finish THEN "done" ELSE "calc")
    /\ UNCHANGED <<items, idcounter, now, count, unlock, finish, until, current, outcome>>

\* calcWaitTime() discards empty items until an item with a handler is on top.
\* Items that end at the same time come in any order.
CalcWaitTime ==
    /\ Step("calc", "wait")
    /\ \/ /\ WithHandler = {}
          /\ items' = {} /\ until' = NoTimer
       \/ \E top \in WithHandler :
            /\ \A i \in WithHandler : top.end <= i.end
            /\ \E discarded \in SUBSET {i \in items : i.handler = 0 /\ i.end = top.end} :
                 items' = {i \in items : i.handler # 0 \/ i.end >= top.end} \ discarded
            /\ until' = top.end
    /\ UNCHANGED <<idcounter, now, count, unlock, finish, current, outcome>>

\* waitUntil() returns because it was notified ...
Woken ==
    /\ Step("wait", "work")
    /\ count > 0 \/ unlock
    /\ count' = count - 1 /\ unlock' = FALSE
    /\ UNCHANGED <<items, idcounter, now, finish, until, current, outcome>>

\* ... or because the time it waits for has come.
TimedOut ==
    /\ Step("wait", "work")
    /\ count = 0 /\ ~unlock
    /\ until <= now \/ until = NoTimer
    /\ UNCHANGED <<items, idcounter, now, count, unlock, finish, until, current, outcome>>

\* Mutant of CheckWork: every handler is told that its time has come.
CheckWorkNotAborted ==
    \/ /\ Step("work", "check")
       /\ Due = {}
       /\ UNCHANGED <<items, idcounter, now, count, unlock, finish, until, current, outcome>>
    \/ \E top \in Due :
         /\ \A i \in items : top.end <= i.end
         /\ items' = items \ {top}
         /\ IF top.handler = 0
            THEN Step("work", "work") /\ UNCHANGED <<current, outcome>>
            ELSE /\ Step("work", "call")
                 /\ current' = [handler |-> top.handler, aborted |-> FALSE]
                 /\ outcome' = [outcome EXCEPT ![top.handler] = "executed"]
         /\ UNCHANGED <<idcounter, now, count, unlock, finish, until>>

\* One round of checkWork(): the item on top is taken off under the mutex;
\* its handler is called after the mutex was given back.
CheckWork ==
    \/ /\ Step("work", "check")
       /\ Due = {}
       /\ UNCHANGED <<items, idcounter, now, count, unlock, finish, until, current, outcome>>
    \/ \E top \in Due :
         /\ \A i \in items : top.end <= i.end
         /\ items' = items \ {top}
         /\ IF top.handler = 0
            THEN Step("work", "work") /\ UNCHANGED <<current, outcome>>
            ELSE /\ Step("work", "call")
                 /\ current' = [handler |-> top.handler, aborted |-> top.id = 0]
                 /\ outcome' = [outcome EXCEPT ![top.handler] =
                                  IF top.id = 0 THEN "aborted" ELSE "executed"]
         /\ UNCHANGED <<idcounter, now, count, unlock, finish, until>>

\* The handler returns to checkWork().
HandlerReturns(from) ==
    /\ Step(from, "work")
    /\ current' = NoCall
    /\ UNCHANGED <<items, idcounter, now, count, unlock, finish, until, outcome>>

WorkerStep == LoopCheck \/ CalcWaitTime \/ Woken \/ TimedOut \/ CheckWork
===============================================================================
