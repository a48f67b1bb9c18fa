------------------------------ MODULE TimedNodes ------------------------------
(***************************************************************************)
(* The nodes that own a TimerQueue: SleepNode, DelayNode, TimeoutNode and  *)
(* TestNode.  One node, of a kind chosen at the start, is ticked and       *)
(* halted by the thread of the tree while the worker of its queue calls    *)
(* back; at the end the node is destroyed.                                 *)
(*                                                                         *)
(* An execution begins when an IDLE node is ticked and adds one timer, so  *)
(* the executions of a node are numbered by idcounter.                     *)
(***************************************************************************)
EXTENDS TimerQueue

CONSTANTS
    Kinds,          \* the kinds of node to consider
    ChildAnswers,   \* what the child of a decorator may answer
    MaxCount        \* bound: notifications the worker has not consumed

ASSUME KindsAssumption == Kinds \subseteq {"Sleep", "Delay", "Timeout", "Test"}
ASSUME AnswersAssumption == ChildAnswers \subseteq {"RUNNING", "SUCCESS", "FAILURE", "SKIPPED"}
ASSUME CountAssumption == MaxCount \in Nat

VARIABLES
    kind,
    status,      \* of the node
    started,     \* delay_started_, timeout_started_
    signalled,   \* ~timer_waiting_, delay_complete_, child_halted_, _completed
    child,       \* status of the child of a decorator
    mutex,       \* who holds delay_mutex_ or timeout_mutex_
    tree,        \* where the thread of the tree is
    timer,       \* no code: the timer of the execution, 0 if it has none
    setter,      \* no code: the timer that last set signalled since Start
    endings      \* no code: executions whose delay or timeout was taken as over

history == <<timer, setter, endings>>
nodeVars == <<kind, status, started, signalled, child, mutex, tree, history>>
vars == <<queueVars, nodeVars>>

isAction == kind \in {"Sleep", "Test"}
Completed(s) == s \in {"SUCCESS", "FAILURE"}
Execution == idcounter

\* An execution, by its timer, and the timer whose handler ended it.
Ending == [of : 0 .. MaxTimers, by : 0 .. MaxTimers]
Ended(from) == from \cup {[of |-> timer, by |-> setter]}

NodeTypeOK ==
    /\ kind \in Kinds /\ status \in {"IDLE", "RUNNING"}
    /\ started \in BOOLEAN /\ signalled \in BOOLEAN
    /\ child \in {"IDLE", "RUNNING", "SUCCESS", "FAILURE"}
    /\ mutex \in {"free", "tree", "worker"}
    /\ tree \in {"rest", "add", "lock", "child", "cancel", "relock", "halting",
                 "halt_child", "finish", "cancel_all", "unlock", "join", "gone"}
    /\ timer \in 0 .. MaxTimers /\ setter \in 0 .. MaxTimers
    /\ endings \subseteq Ending

TypeOK == QueueTypeOK /\ NodeTypeOK

Init ==
    /\ QueueInit
    /\ kind \in Kinds
    /\ status = "IDLE" /\ started = FALSE
    /\ signalled = (kind = "Sleep")
    /\ child = "IDLE" /\ mutex = "free" /\ tree = "rest"
    /\ timer = 0 /\ setter = 0 /\ endings = {}

At(pc) == tree = pc
GoTo(from, to) == tree = from /\ tree' = to

-------------------------------------------------------------------------------
(* tick().  A parent resets a child that has completed, so the status of   *)
(* the node is IDLE again once it has answered SUCCESS or FAILURE.         *)

\* Mutant of Start: the flag keeps the value the last execution left.
StartStale ==
    /\ At("rest") /\ idcounter < MaxTimers
    /\ IF isAction THEN status = "IDLE" ELSE ~started
    /\ status' = "RUNNING" /\ started' = ~isAction
    /\ tree' = "add"
    /\ timer' = 0 /\ setter' = 0
    /\ UNCHANGED <<queueVars, kind, signalled, child, mutex, endings>>

\* onStart() of the actions and the first tick of a decorator, up to the call
\* of add().  A Sleep or Test of 0 ms completes without a timer.
Start ==
    /\ At("rest") /\ idcounter < MaxTimers
    /\ IF isAction THEN status = "IDLE" ELSE ~started
    /\ status' = "RUNNING" /\ signalled' = FALSE
    /\ started' = ~isAction
    /\ tree' = "add"
    /\ timer' = 0 /\ setter' = 0
    /\ UNCHANGED <<queueVars, kind, child, mutex, endings>>

\* A Timeout of 0 ms has no timer.
AddTimer ==
    /\ GoTo("add", IF isAction THEN "rest" ELSE "lock")
    /\ \E msec \in 0 .. MaxDelay :
         \/ (msec > 0 \/ kind = "Delay") /\ Add(msec) /\ timer' = idcounter'
         \/ msec = 0 /\ kind = "Timeout" /\ UNCHANGED <<queueVars, timer>>
    /\ UNCHANGED <<kind, status, started, signalled, child, mutex, setter, endings>>

\* onRunning() of an action.
Poll ==
    /\ At("rest") /\ isAction /\ status = "RUNNING" /\ signalled
    /\ status' = "IDLE" /\ endings' = Ended(endings)
    /\ UNCHANGED <<queueVars, kind, started, signalled, child, mutex, tree, timer, setter>>

\* A decorator that is RUNNING is ticked again.
TickAgain ==
    /\ ~isAction /\ started /\ GoTo("rest", "lock")
    /\ UNCHANGED <<queueVars, kind, status, started, signalled, child, mutex, history>>

\* The rest of tick() of a decorator runs under the mutex: it looks at the flag
\* and answers, or goes on to tick the child.
Lock ==
    /\ At("lock") /\ mutex = "free"
    /\ \/ /\ signalled = (kind = "Delay")
          /\ mutex' = "tree" /\ tree' = "child"
          /\ endings' = IF kind = "Delay" THEN Ended(endings) ELSE endings
          /\ UNCHANGED <<status, started>>
       \/ /\ kind = "Delay" /\ ~signalled
          /\ tree' = "rest"
          /\ UNCHANGED <<status, started, mutex, endings>>
       \/ /\ kind = "Timeout" /\ signalled
          /\ started' = FALSE /\ status' = "IDLE" /\ tree' = "rest"
          /\ endings' = Ended(endings)
          /\ UNCHANGED mutex
    /\ UNCHANGED <<queueVars, kind, signalled, child, timer, setter>>

\* child()->executeTick().  Once its child has completed a Timeout gives the
\* mutex back to cancel the timer.
ChildTicks ==
    /\ At("child")
    /\ \E answer \in ChildAnswers :
         IF Completed(answer)
         THEN /\ started' = FALSE
              /\ IF kind = "Timeout"
                 THEN child' = answer /\ tree' = "cancel" /\ UNCHANGED status
                 ELSE child' = "IDLE" /\ tree' = "rest" /\ status' = "IDLE"
         ELSE /\ child' = IF answer = "SKIPPED" THEN "IDLE" ELSE answer
              /\ tree' = "rest" /\ UNCHANGED <<status, started>>
    /\ mutex' = "free"
    /\ UNCHANGED <<queueVars, kind, signalled, history>>

CancelTimer ==
    /\ GoTo("cancel", "relock") /\ Cancel(Execution)
    /\ UNCHANGED <<kind, status, started, signalled, child, mutex, history>>

\* ... and takes it again to reset the child.
Relock ==
    /\ GoTo("relock", "rest") /\ mutex = "free"
    /\ child' = "IDLE" /\ status' = "IDLE"
    /\ UNCHANGED <<queueVars, kind, started, signalled, mutex, history>>

-------------------------------------------------------------------------------
(* halt(), which takes no mutex, and the destructor.  Tree::haltTree()     *)
(* halts the nodes that are IDLE too.                                      *)

Halt ==
    /\ GoTo("rest", "halting") /\ count < MaxCount
    /\ started' = FALSE
    /\ signalled' = IF kind = "Sleep" /\ status = "RUNNING" THEN TRUE ELSE signalled
    /\ UNCHANGED <<queueVars, kind, status, child, mutex, history>>

HaltTimers ==
    /\ At("halting")
    /\ IF isAction
       THEN /\ IF status = "IDLE" THEN UNCHANGED queueVars
               ELSE IF kind = "Sleep" THEN Cancel(Execution) ELSE CancelAll
            /\ status' = "IDLE" /\ tree' = "rest"
       ELSE CancelAll /\ tree' = "halt_child" /\ UNCHANGED status
    /\ UNCHANGED <<kind, started, signalled, child, mutex, history>>

HaltChild ==
    /\ GoTo("halt_child", "rest")
    /\ child' = "IDLE" /\ status' = "IDLE"
    /\ UNCHANGED <<queueVars, kind, started, signalled, mutex, history>>

\* The tree was halted; the destructor of a decorator cancels once more, then
\* that of the queue runs.
Destroy ==
    /\ status = "IDLE" /\ GoTo("rest", "finish")
    /\ IF isAction THEN UNCHANGED queueVars ELSE CancelAll
    /\ UNCHANGED <<kind, status, started, signalled, child, mutex, history>>

\* Mutant of Shutdown: the worker is not told to finish.
ShutdownForgetsFinish ==
    /\ \/ GoTo("finish", "cancel_all") /\ UNCHANGED queueVars
       \/ GoTo("cancel_all", "unlock") /\ CancelAll
       \/ GoTo("unlock", "join") /\ ManualUnlock
       \/ GoTo("join", "gone") /\ worker = "done" /\ UNCHANGED queueVars
    /\ UNCHANGED <<kind, status, started, signalled, child, mutex, history>>

Shutdown ==
    /\ \/ GoTo("finish", "cancel_all") /\ Finish
       \/ GoTo("cancel_all", "unlock") /\ CancelAll
       \/ GoTo("unlock", "join") /\ ManualUnlock
       \/ GoTo("join", "gone") /\ worker = "done" /\ UNCHANGED queueVars
    /\ UNCHANGED <<kind, status, started, signalled, child, mutex, history>>

-------------------------------------------------------------------------------
(* The handlers, called by the worker with no mutex of the queue held. *)

\* What the flag is set to, and by which timer.
Signal(value) ==
    /\ signalled' = value
    /\ setter' = IF value THEN current.handler ELSE setter
    /\ UNCHANGED <<timer, endings>>

\* Mutant of Callback: only the handler of a cancelled timer sets the flag.
CallbackForgets ==
    /\ worker = "call"
    /\ Signal(signalled \/ current.aborted)
    /\ HandlerReturns("call")
    /\ UNCHANGED <<kind, status, started, child, tree, mutex>>

\* Mutant of Callback: a Timeout halts its child without the mutex.
CallbackUnlocked ==
    /\ worker = "call"
    /\ IF kind = "Timeout" /\ ~current.aborted /\ child = "RUNNING"
       THEN /\ Signal(TRUE) /\ worker' = "halting"
            /\ UNCHANGED <<items, idcounter, now, count, unlock, finish, until, current, outcome, mutex>>
       ELSE HandlerReturns("call") /\ UNCHANGED <<signalled, mutex, history>>
    /\ UNCHANGED <<kind, status, started, child, tree>>

Callback ==
    /\ worker = "call"
    /\ \/ /\ kind = "Timeout" /\ ~current.aborted
          /\ mutex = "free" /\ child = "RUNNING"
          /\ Signal(TRUE) /\ mutex' = "worker" /\ worker' = "halting"
          /\ UNCHANGED <<items, idcounter, now, count, unlock, finish, until, current, outcome>>
       \/ /\ kind = "Timeout"
          /\ current.aborted \/ (mutex = "free" /\ child # "RUNNING")
          /\ HandlerReturns("call") /\ UNCHANGED <<signalled, mutex, history>>
       \/ /\ kind = "Delay" => mutex = "free"
          /\ kind # "Timeout"
          /\ Signal(kind = "Sleep" \/ ~current.aborted)
          /\ HandlerReturns("call") /\ UNCHANGED mutex
    /\ UNCHANGED <<kind, status, started, child, tree>>

\* haltChild() by the worker of a Timeout.
HaltByTimer ==
    /\ HandlerReturns("halting")
    /\ child' = "IDLE" /\ mutex' = "free"
    /\ UNCHANGED <<kind, status, started, signalled, tree, history>>

-------------------------------------------------------------------------------
Gone == tree = "gone" /\ UNCHANGED vars

TickStep == Start \/ AddTimer \/ Poll \/ TickAgain \/ Lock \/ ChildTicks \/ CancelTimer \/ Relock
HaltStep == Halt \/ HaltTimers \/ HaltChild \/ Destroy \/ Shutdown
QueueStep == (WorkerStep \/ Tick) /\ UNCHANGED nodeVars

Next == TickStep \/ HaltStep \/ QueueStep \/ Callback \/ HaltByTimer \/ Gone

(* A RUNNING node is ticked again and again, a call that has begun goes on, *)
(* time passes, the worker runs, and it gets the mutex sooner or later: the *)
(* tree gives it back at the end of each tick.                              *)
Fairness ==
    /\ WF_vars(AddTimer \/ Poll \/ TickAgain \/ ChildTicks \/ CancelTimer \/ HaltTimers \/ HaltChild)
    /\ SF_vars(Lock \/ Relock)
    /\ WF_vars(Shutdown)
    /\ WF_vars(WorkerStep /\ UNCHANGED nodeVars)
    /\ WF_vars(Tick /\ UNCHANGED nodeVars)
    /\ SF_vars(Callback)
    /\ WF_vars(HaltByTimer)

Spec == Init /\ [][Next]_vars
FairSpec == Spec /\ Fairness

-------------------------------------------------------------------------------
(* Properties. *)

\* What has become of each handler.
Fate ==
    [h \in Handler |->
        IF outcome[h] # "none" THEN outcome[h]
        ELSE IF h > idcounter THEN "new"
        ELSE IF \E i \in items : i.handler = h /\ i.id = 0 THEN "cancelled"
        ELSE "waiting"]

Service == INSTANCE TimerService WITH handlers <- Fate, closed <- finish

\* A handler is called at most once, by its time or, aborted, after it was
\* cancelled, no timer is added once the destructor has begun, and until then
\* every handler gets its call: the part of timer_queue.h:64-66 that run() keeps.
HandlersExecutedOnce == Service!Spec /\ Service!Served

\* Every handler that was added is in exactly one place until it is called:
\* cancel() moves it between items while the worker takes items off.
NoHandlerLost ==
    \A h \in 1 .. idcounter :
        Cardinality({i \in items : i.handler = h}) = IF outcome[h] = "none" THEN 1 ELSE 0

\* The worker never sleeps past the first item of the queue: one that was added
\* or cancelled since calcWaitTime() looked has left a notification.
NoMissedDeadline ==
    worker = "wait" /\ (\E i \in WithHandler : i.end < until) => count > 0

\* The timer thread of a Timeout halts the child only between its ticks.
NoHaltInsideTick == ~(tree = "child" /\ worker = "halting")

\* An execution whose own timer did not end it: it was halted, its child
\* completed, or the handler of a former one ended it.
LeftTimerBehind(t) == [of |-> t, by |-> t] \notin endings

\* A delay or timeout is taken as over because a handler was called since it
\* began: its own, whose time had come, or the late one of a former execution
\* that left its timer behind (sleep_node.cpp:33, delay_node.cpp:52).  The
\* cancelled timer of another execution ends none but a Sleep.
NotEarly ==
    \A e \in endings :
        \/ e.by > 0 /\ e.by = e.of /\ outcome[e.by] = "executed"
        \/ /\ e.by > 0 /\ LeftTimerBehind(e.by)
           /\ kind = "Sleep" \/ outcome[e.by] = "executed"

\* A Sleep, Delay or Test that is RUNNING sees its time pass or is halted,
\* whatever timers of earlier executions call back.
RunningEnds ==
    kind # "Timeout" /\ status = "RUNNING" ~>
        status = "IDLE" \/ \E e \in endings : e.of = timer

\* The destructor's join() returns, whatever the worker was doing.
DestructorEnds == tree = "finish" ~> tree = "gone"

===============================================================================
